---- MODULE Spec2Model ----
(***************************************************************************)
(* A model of the CDCL solver of CDCL_SAT_Solver/cdcl_solver.cpp: the      *)
(* clause database with two watched literals, BCP, 1-UIP conflict          *)
(* analysis, backtracking, the three deciders (ORDERED, VSIDS, MINISAT),   *)
(* the priority queue and the restart controller.                          *)
(*                                                                         *)
(* Literals are the internal indices of the code: variable v is the        *)
(* positive literal v and v + _num_vars its negation.  Clause ids and      *)
(* trail positions are 0-based as in the code; a TLA+ sequence that models *)
(* a vector is read at [i + 1].                                            *)
(*                                                                         *)
(* Scores are doubles in the code.  Every score is a count plus a sum of   *)
(* increments (1 + 0.75 k under VSIDS, (1/0.85)^k under MINISAT), so the   *)
(* model keeps them as integers in a unit in which all of them are whole:  *)
(* a quarter under VSIDS, 1/17^MaxBumps under MINISAT.                     *)
(***************************************************************************)
EXTENDS Integers, Sequences, FiniteSets, TLC

\* ------------------------------------------------------------------ bounds
\* Variables of the exhaustively enumerated inputs.
MaxVars == 2
\* Literals per clause line of the exhaustively enumerated inputs.
MaxLen == 2
\* Clause lines of the exhaustively enumerated inputs.
MaxClauses == 2
\* Clauses a VSIDS or MINISAT run may learn, each with its bump of the scores
\* (the unit of the MINISAT scores is 1/17^MaxBumps).
MaxBumps == 5
\* The keys of a priority queue driven on its own, the largest score its
\* operations raise a key to, and the operations applied after init.
MaxKeys == 6
MaxScore == 2
MaxOps == 3
\* The calls made to a Luby generator driven on its own.
MaxCalls == 127

\* ------------------------------------------------------- program constants
\* int _luby_base = 512, and the first GEOMETRIC threshold.
_luby_base == 512
GeometricStart == 512
_limit_mult == 2

VARIABLES
    argc,        \* main's argument count
    file,        \* the DIMACS text: [nv |-> N of the header, lines |-> clause lines]
    _decider, _restarter,
    pc,          \* position in SAT::solve
    lineNo,      \* clause lines consumed by read_dimacs_cnf_file
    first_time,  \* local of solve
    res,         \* local of solve: what boolean_constraint_propogation returned
    analysis,    \* local of solve: the pair analyze_conflict returned
    conflict_at_0, \* history: BCP has found a falsified clause at level 0
    ops,         \* operations applied to a component driven on its own
    assgn_dict,  \* the verifier's assignment: variable -> value
    solver,      \* the solver object of a program of sat_solver_package
    is_correct,  \* the verifier's local: what check_validity returned
    _num_clauses, _num_vars, _level,
    _clauses, _clauses_watched_by_l, _literals_watching_c,
    _variable_to_assignment_nodes, _is_var_assigned, _assignment_stack,
    _conflict_limit, _conflicts_before_restart, _luby_gen,
    _lit_scores, _var_scores, _phase, _incr,
    _priority_queue,
    stats

solverVars == <<_num_clauses, _num_vars, _level, _clauses, _clauses_watched_by_l,
                _literals_watching_c, _variable_to_assignment_nodes, _is_var_assigned,
                _assignment_stack, _conflict_limit, _conflicts_before_restart, _luby_gen,
                _lit_scores, _var_scores, _phase, _incr, _priority_queue, stats>>
vars == <<argc, file, _decider, _restarter, pc, lineNo, first_time, res, analysis,
          conflict_at_0, ops, assgn_dict, solver, is_correct, solverVars>>

\* ----------------------------------------------------------------- helpers
Max(a, b) == IF a > b THEN a ELSE b
Abs(x) == IF x < 0 THEN -x ELSE x
Range(f) == {f[i] : i \in DOMAIN f}
Last(q) == q[Len(q)]
Front(q) == SubSeq(q, 1, Len(q) - 1)

RECURSIVE Pow(_, _)
Pow(b, e) == IF e = 0 THEN 1 ELSE b * Pow(b, e - 1)

\* std::sort followed by std::unique: the distinct elements in ascending order.
RECURSIVE SortedSeq(_)
SortedSeq(S) ==
    IF S = {} THEN <<>>
    ELSE LET m == CHOOSE x \in S : \A y \in S : x <= y
         IN <<m>> \o SortedSeq(S \ {m})
SortUnique(q) == SortedSeq(Range(q))

\* ------------------------------------------------------------ LubyGenerator
\* log2(to_fill + 1) is an integer: to_fill + 1 is a power of two.
RECURSIVE IsPowerOfTwo(_)
IsPowerOfTwo(n) == n = 1 \/ (n > 1 /\ n % 2 = 0 /\ IsPowerOfTwo(n \div 2))

LubyReset == [l |-> <<>>, mult |-> 1, minu |-> 0]

\* get_next_luby_number that tests to_fill, not to_fill + 1, for a power of
\* two.
get_next_luby_number_TestsToFill(g) ==
    LET size == Len(g.l)
        to_fill == size + 1
    IN IF IsPowerOfTwo(to_fill)
       THEN [l |-> Append(g.l, g.mult), mult |-> g.mult * 2, minu |-> size + 1]
       ELSE [g EXCEPT !.l = Append(g.l, g.l[(to_fill - g.minu - 1) + 1])]

\* get_next_luby_number: the generator after the call; the number returned is
\* the last element of its l.
get_next_luby_number(g) ==
    LET size == Len(g.l)
        to_fill == size + 1
    IN IF IsPowerOfTwo(to_fill + 1)
       THEN [l |-> Append(g.l, g.mult), mult |-> g.mult * 2, minu |-> size + 1]
       ELSE [g EXCEPT !.l = Append(g.l, g.l[(to_fill - g.minu - 1) + 1])]

\* ------------------------------------------------------------ PriorityQueue
\* heap: the vector of <<score, key>>, indices: key -> heap position or -1 (a
\* function on 0..max_element_index, so "key >= indices.size()" is "key is not
\* in its domain"), size: the live prefix of heap.
EmptyQueue == [heap |-> <<>>, indices |-> <<>>, size |-> 0]

swap_nodes(q, ind1, ind2) ==
    LET h == [q.heap EXCEPT ![ind1 + 1] = q.heap[ind2 + 1],
                            ![ind2 + 1] = q.heap[ind1 + 1]]
        elem1 == h[ind1 + 1][2]
        elem2 == h[ind2 + 1][2]
        i1 == [q.indices EXCEPT ![elem1] = ind1]
    IN [q EXCEPT !.heap = h, !.indices = [i1 EXCEPT ![elem2] = ind2]]

RECURSIVE heapify(_, _)
heapify(q, node_index) ==
    LET left_index == 2 * node_index + 1
        right_index == 2 * node_index + 2
        m1 == IF left_index < q.size /\ q.heap[left_index + 1][1] > q.heap[node_index + 1][1]
              THEN left_index ELSE node_index
        max_idx == IF right_index < q.size /\ q.heap[right_index + 1][1] > q.heap[m1 + 1][1]
                   THEN right_index ELSE m1
    IN IF max_idx # node_index
       THEN heapify(swap_nodes(q, max_idx, node_index), max_idx)
       ELSE q

\* The bubble-up loop of increase_update and remove, from position par.
RECURSIVE BubbleUp(_, _)
BubbleUp(q, par) ==
    IF par = 0 THEN q
    ELSE LET temp == par
             p == (par - 1) \div 2
         IN IF q.heap[temp + 1][1] > q.heap[p + 1][1]
            THEN BubbleUp(swap_nodes(q, temp, p), p)
            ELSE q

RECURSIVE HeapifyDown(_, _)
HeapifyDown(q, i) == IF i < 0 THEN q ELSE HeapifyDown(heapify(q, i), i - 1)

\* init(start_list, max_element_index): start_list is a function on 0..m, its
\* entry 0 is skipped.
PQinit(start_list, max_element_index) ==
    LET m == Cardinality(DOMAIN start_list) - 1
        q0 == [heap |-> [i \in 1..m |-> <<start_list[i], i>>],
               indices |-> [k \in 0..max_element_index |->
                               IF k >= 1 /\ k <= m THEN k - 1 ELSE -1],
               size |-> m]
    IN HeapifyDown(q0, (m \div 2) - 1)

\* get_top: [q |-> the queue after the call, top |-> the key or -1].
get_top(q) ==
    IF q.size = 0 THEN [q |-> q, top |-> -1]
    ELSE LET top_element == q.heap[1][2]
             q1 == swap_nodes(q, 0, q.size - 1)
             q2 == [q1 EXCEPT !.indices[q1.heap[q.size][2]] = -1, !.size = q.size - 1]
         IN [q |-> IF q2.size > 0 THEN heapify(q2, 0) ELSE q2, top |-> top_element]

increase_update(q, key, value) ==
    IF key \notin DOMAIN q.indices THEN q
    ELSE IF q.indices[key] = -1 THEN q
    ELSE LET pos == q.indices[key]
             q1 == [q EXCEPT !.heap[pos + 1] = <<q.heap[pos + 1][1] + value, q.heap[pos + 1][2]>>]
         IN BubbleUp(q1, pos)

\* PQremove that only sifts the replacing node down.
PQremove_OnlySiftsDown(q, key) ==
    IF key \notin DOMAIN q.indices THEN q
    ELSE IF q.indices[key] = -1 THEN q
    ELSE LET pos == q.indices[key]
             q1 == swap_nodes(q, pos, q.size - 1)
             q2 == [q1 EXCEPT !.indices[key] = -1, !.size = q.size - 1]
         IN IF pos < q2.size THEN heapify(q2, pos) ELSE q2

PQremove(q, key) ==
    IF key \notin DOMAIN q.indices THEN q
    ELSE IF q.indices[key] = -1 THEN q
    ELSE LET pos == q.indices[key]
             this_node_pr == q.heap[pos + 1][1]
             q1 == swap_nodes(q, pos, q.size - 1)
             q2 == [q1 EXCEPT !.indices[key] = -1, !.size = q.size - 1]
         IN IF pos < q2.size
            THEN IF q2.heap[pos + 1][1] > this_node_pr
                 THEN BubbleUp(q2, pos)
                 ELSE heapify(q2, pos)
            ELSE q2

PQadd(q, key, value) ==
    LET h == IF q.size = Len(q.heap)
             THEN Append(q.heap, <<0, key>>)
             ELSE [q.heap EXCEPT ![q.size + 1] = <<0, key>>]
        q1 == [heap |-> h, indices |-> [q.indices EXCEPT ![key] = q.size], size |-> q.size + 1]
    IN increase_update(q1, key, value)

\* ------------------------------------------------------------- solver state
\* AssignedNode(v, val, lvl, cl): index starts at -1.
AssignedNode(v, val, lvl, cl) ==
    [var |-> v, value |-> val, level |-> lvl, clause |-> cl, index |-> -1]
NoNode == AssignedNode(-1, FALSE, -1, -1)
is_valid(n) == n.var # -1

\* The fields of the SAT object as one record, on which the methods are
\* operators.
St == [decider |-> _decider, restarter |-> _restarter,
       num_clauses |-> _num_clauses, num_vars |-> _num_vars, level |-> _level,
       clauses |-> _clauses, watched_by |-> _clauses_watched_by_l,
       watching |-> _literals_watching_c,
       nodes |-> _variable_to_assignment_nodes, assigned |-> _is_var_assigned,
       stack |-> _assignment_stack,
       conflict_limit |-> _conflict_limit,
       conflicts_before_restart |-> _conflicts_before_restart,
       luby_gen |-> _luby_gen,
       lit_scores |-> _lit_scores, var_scores |-> _var_scores, phase |-> _phase,
       incr |-> _incr, pq |-> _priority_queue, stats |-> stats]

Set(s) ==
    /\ _num_clauses' = s.num_clauses
    /\ _num_vars' = s.num_vars
    /\ _level' = s.level
    /\ _clauses' = s.clauses
    /\ _clauses_watched_by_l' = s.watched_by
    /\ _literals_watching_c' = s.watching
    /\ _variable_to_assignment_nodes' = s.nodes
    /\ _is_var_assigned' = s.assigned
    /\ _assignment_stack' = s.stack
    /\ _conflict_limit' = s.conflict_limit
    /\ _conflicts_before_restart' = s.conflicts_before_restart
    /\ _luby_gen' = s.luby_gen
    /\ _lit_scores' = s.lit_scores
    /\ _var_scores' = s.var_scores
    /\ _phase' = s.phase
    /\ _incr' = s.incr
    /\ _priority_queue' = s.pq
    /\ stats' = s.stats

\* One unit of score in the integers of the model: 1.0 of the code.
ScoreOne(decider) == IF decider = "VSIDS" THEN 4 ELSE Pow(17, MaxBumps)

is_negative_literal(s, literal) == literal > s.num_vars
get_var_from_literal(s, literal) ==
    IF is_negative_literal(s, literal) THEN literal - s.num_vars ELSE literal

\* The literal a node makes true, and the one it makes false.
LitTrueOf(s, n) == IF n.value THEN n.var ELSE n.var + s.num_vars
LitFalseOf(s, n) == IF n.value THEN n.var + s.num_vars ELSE n.var

\* Push node on the trail and record it in the per-variable slot, as every
\* assignment of the code does: the slot's copy gets the trail position, the
\* trail's copy keeps index -1.
PushNode(s, node) ==
    [s EXCEPT !.assigned[node.var] = TRUE,
              !.nodes[node.var] = [node EXCEPT !.index = Len(s.stack)],
              !.stack = Append(s.stack, node)]

\* ----------------------------------------------------------------- parsing
\* The tautology test that compares the literals instead of their variables.
IsTautology_ComparesLiterals(s, clause) ==
    \E i, j \in 1..Len(clause) : i < j /\ clause[i] = clause[j]

\* The tautology test of add_clause: two positions of the sorted clause with
\* the same variable.
IsTautology(s, clause) ==
    \E i, j \in 1..Len(clause) :
        i < j /\ get_var_from_literal(s, clause[i]) = get_var_from_literal(s, clause[j])

BumpInitial(s, lit) ==
    IF s.decider = "VSIDS"
    THEN [s EXCEPT !.lit_scores[lit] = @ + ScoreOne(s.decider)]
    ELSE IF s.decider = "MINISAT"
    THEN [s EXCEPT !.var_scores[get_var_from_literal(s, lit)] = @ + ScoreOne(s.decider)]
    ELSE s

RECURSIVE BumpAllInitial(_, _, _)
BumpAllInitial(s, clause, i) ==
    IF i > Len(clause) THEN s
    ELSE BumpAllInitial(BumpInitial(s, clause[i]), clause, i + 1)

\* Store a clause of two or more literals with its first two literals as
\* watches (the tail of add_clause, and of analyze_conflict for a learned one).
StoreClause(s, stored_clause) ==
    LET clause_id == s.num_clauses
        w1 == stored_clause[1]
        w2 == stored_clause[2]
        wb1 == [s.watched_by EXCEPT ![w1] = Append(@, clause_id)]
    IN [s EXCEPT !.clauses = Append(s.clauses, stored_clause),
                 !.num_clauses = s.num_clauses + 1,
                 !.watching = Append(s.watching, <<w1, w2>>),
                 !.watched_by = [wb1 EXCEPT ![w2] = Append(@, clause_id)]]

\* add_clause that takes a unit clause against a seeded value for satisfied.
add_clause_KeepsSeededValue(s, clause_in) ==
    LET clause == SortUnique(clause_in)
    IN IF IsTautology(s, clause) THEN [s |-> s, ret |-> 1]
       ELSE IF Len(clause) = 0
       THEN [s |-> [s EXCEPT !.stats.result = "UNSAT"], ret |-> 0]
       ELSE IF Len(clause) = 1
       THEN LET lit == clause[1]
                value_to_set == ~is_negative_literal(s, lit)
                var == get_var_from_literal(s, lit)
            IN IF ~s.assigned[var]
               THEN [s |-> PushNode([s EXCEPT !.stats.num_implications = @ + 1],
                                    AssignedNode(var, value_to_set, 0, -1)),
                     ret |-> 1]
               ELSE [s |-> s, ret |-> 1]
       ELSE [s |-> StoreClause(BumpAllInitial(s, clause, 1), clause), ret |-> 1]

\* add_clause: [s |-> the solver after the call, ret |-> 1 or 0].
add_clause(s, clause_in) ==
    LET clause == SortUnique(clause_in)
    IN IF IsTautology(s, clause) THEN [s |-> s, ret |-> 1]
       ELSE IF Len(clause) = 0
       THEN [s |-> [s EXCEPT !.stats.result = "UNSAT"], ret |-> 0]
       ELSE IF Len(clause) = 1
       THEN LET lit == clause[1]
                value_to_set == ~is_negative_literal(s, lit)
                var == get_var_from_literal(s, lit)
            IN IF ~s.assigned[var]
               THEN [s |-> PushNode([s EXCEPT !.stats.num_implications = @ + 1],
                                    AssignedNode(var, value_to_set, 0, -1)),
                     ret |-> 1]
               ELSE IF s.nodes[var].value # value_to_set
               THEN [s |-> [s EXCEPT !.stats.result = "UNSAT"], ret |-> 0]
               ELSE [s |-> s, ret |-> 1]
       ELSE [s |-> StoreClause(BumpAllInitial(s, clause, 1), clause), ret |-> 1]

\* The conversion of a clause line from DIMACS to internal literals.
ToInternal(nv, line) ==
    [i \in 1..Len(line) |-> IF line[i] < 0 THEN Abs(line[i]) + nv ELSE line[i]]

\* The 'p cnf N M' line: the sizes read_dimacs_cnf_file sets.
ReadHeaderLine(s, nv) ==
    [s EXCEPT !.num_vars = nv,
              !.nodes = [v \in 0..nv |-> NoNode],
              !.assigned = [v \in 0..nv |-> FALSE],
              !.watched_by = [l \in 0..(2 * nv + 1) |-> <<>>],
              !.lit_scores = IF s.decider = "VSIDS"
                             THEN [l \in 0..(2 * nv + 1) |-> 0] ELSE s.lit_scores,
              !.var_scores = IF s.decider = "MINISAT"
                             THEN [v \in 0..nv |-> 0] ELSE s.var_scores,
              !.phase = IF s.decider = "MINISAT"
                        THEN [v \in 0..nv |-> 0] ELSE s.phase]

\* remove(node.var) and, under VSIDS, remove(node.var + _num_vars), for the
\* trail nodes from position i on.
RECURSIVE RemoveAssigned(_, _, _)
RemoveAssigned(s, q, i) ==
    IF i > Len(s.stack) THEN q
    ELSE LET v == s.stack[i].var
             q1 == PQremove(q, v)
             q2 == IF s.decider = "VSIDS" THEN PQremove(q1, v + s.num_vars) ELSE q1
         IN RemoveAssigned(s, q2, i + 1)

\* The end of read_dimacs_cnf_file: the priority queue is initialised.
InitPriorityQueue(s) ==
    IF s.decider = "VSIDS"
    THEN [s EXCEPT !.pq = RemoveAssigned(s, PQinit(s.lit_scores, 2 * s.num_vars + 1), 1)]
    ELSE IF s.decider = "MINISAT"
    THEN [s EXCEPT !.pq = RemoveAssigned(s, PQinit(s.var_scores, s.num_vars), 1)]
    ELSE s

\* ------------------------------------------------------------------ decide
\* The variable and value decide picks, and the queue after the pick:
\* [var, value, pq].
PickOrdered(s, un) ==
    [var |-> IF un = {} THEN -1 ELSE CHOOSE x \in un : \A y \in un : x <= y,
     value |-> TRUE, pq |-> s.pq]

\* VSIDS, r the result of get_top: the literal's variable and sign, and the
\* sibling literal removed from the queue.
PickVsids(s, r) ==
    IF r.top # -1
    THEN [var |-> get_var_from_literal(s, r.top),
          value |-> ~is_negative_literal(s, r.top),
          pq |-> IF is_negative_literal(s, r.top)
                 THEN PQremove(r.q, get_var_from_literal(s, r.top))
                 ELSE PQremove(r.q, get_var_from_literal(s, r.top) + s.num_vars)]
    ELSE [var |-> -1, value |-> TRUE, pq |-> r.q]

\* MINISAT, r the result of get_top: the saved phase of the variable.
PickMinisat(s, r) ==
    [var |-> r.top,
     value |-> IF r.top # -1 THEN s.phase[r.top] = 1 ELSE TRUE,
     pq |-> r.q]

PickBranch(s) ==
    IF s.decider = "ORDERED"
    THEN PickOrdered(s, {x \in 1..s.num_vars : ~s.assigned[x]})
    ELSE IF s.decider = "VSIDS" THEN PickVsids(s, get_top(s.pq))
    ELSE PickMinisat(s, get_top(s.pq))

\* The tail of decide for the pick b: [s, var, oob].  oob: the variable
\* picked is no index of the per-variable vectors (sized _num_vars + 1), so
\* the two stores into them are out of bounds; s is then the state in which
\* those stores changed nothing the solver reads.
DecideOn(s, b) ==
    IF b.var = -1 THEN [s |-> [s EXCEPT !.pq = b.pq], var |-> -1, oob |-> FALSE]
    ELSE IF b.var \in DOMAIN s.assigned
    THEN [s |-> PushNode([s EXCEPT !.pq = b.pq, !.level = s.level + 1,
                                   !.stats.num_decisions = @ + 1],
                         AssignedNode(b.var, b.value, s.level + 1, -1)),
          var |-> b.var, oob |-> FALSE]
    ELSE [s |-> [s EXCEPT !.pq = b.pq, !.level = s.level + 1,
                          !.stats.num_decisions = @ + 1,
                          !.stack = Append(s.stack,
                                           AssignedNode(b.var, b.value, s.level + 1, -1))],
          var |-> b.var, oob |-> TRUE]

decide(s) == DecideOn(s, PickBranch(s))

\* --------------------------------------------------------------------- BCP
\* The literal is satisfied by the per-variable state.
LitSatisfied(s, lit) ==
    LET v == get_var_from_literal(s, lit)
    IN s.assigned[v] /\ (s.nodes[v].value = ~is_negative_literal(s, lit))

\* FindNewWatcher with the comparison against the second watch left out.
FindNewWatcher_SkipsFirstOnly(s, clause_id) ==
    LET clause == s.clauses[clause_id + 1]
        watchers == s.watching[clause_id + 1]
        ok == {k \in 1..Len(clause) :
                  /\ clause[k] # watchers[1]
                  /\ \/ ~s.assigned[get_var_from_literal(s, clause[k])]
                     \/ LitSatisfied(s, clause[k])}
    IN IF ok = {} THEN -1 ELSE clause[CHOOSE k \in ok : \A j \in ok : k <= j]

\* The replacement watch of BCP for clause_id: the first literal of the
\* clause that is neither watch and is unassigned or satisfied, or -1.
FindNewWatcher(s, clause_id) ==
    LET clause == s.clauses[clause_id + 1]
        watchers == s.watching[clause_id + 1]
        ok == {k \in 1..Len(clause) :
                  /\ clause[k] # watchers[1]
                  /\ clause[k] # watchers[2]
                  /\ \/ ~s.assigned[get_var_from_literal(s, clause[k])]
                     \/ LitSatisfied(s, clause[k])}
    IN IF ok = {} THEN -1 ELSE clause[CHOOSE k \in ok : \A j \in ok : k <= j]

\* The removal that pops the back of the list and leaves entry i in place.
RemoveAt_DropsLast(list, i) == Front(list)

\* watched_clauses[i] = watched_clauses.back(); watched_clauses.pop_back()
RemoveAt(list, i) == Front([list EXCEPT ![i + 1] = Last(list)])

\* MoveWatch with the removal from the list of literal_falsed left out.
MoveWatch_KeepsOldEntry(s, literal_falsed, i, clause_id, new_watcher) ==
    LET watchers == s.watching[clause_id + 1]
        w == IF watchers[1] = literal_falsed
             THEN <<new_watcher, watchers[2]>>
             ELSE <<watchers[1], new_watcher>>
    IN [s EXCEPT !.watching[clause_id + 1] = w,
                 !.watched_by[new_watcher] = Append(@, clause_id)]

\* The watch pair and the two watch lists after new_watcher replaces
\* literal_falsed as a watch of clause_id, found at index i of the list of
\* literal_falsed.
MoveWatch(s, literal_falsed, i, clause_id, new_watcher) ==
    LET watchers == s.watching[clause_id + 1]
        w == IF watchers[1] = literal_falsed
             THEN <<new_watcher, watchers[2]>>
             ELSE <<watchers[1], new_watcher>>
        wb1 == [s.watched_by EXCEPT ![literal_falsed] = RemoveAt(@, i)]
    IN [s EXCEPT !.watching[clause_id + 1] = w,
                 !.watched_by = [wb1 EXCEPT ![new_watcher] = Append(@, clause_id)]]

\* The unit implication of BCP: other_var gets the value that satisfies
\* other_watch at the current level with antecedent clause_id.
Imply(s, other_var, val_to_set, clause_id) ==
    LET s1 == PushNode(s, AssignedNode(other_var, val_to_set, s.level, clause_id))
        q == IF s.decider = "VSIDS"
             THEN PQremove(PQremove(s.pq, other_var), other_var + s.num_vars)
             ELSE IF s.decider = "MINISAT" THEN PQremove(s.pq, other_var)
             ELSE s.pq
    IN [s1 EXCEPT !.pq = q,
                  !.phase = IF s.decider = "MINISAT"
                            THEN [s.phase EXCEPT ![other_var] = IF val_to_set THEN 1 ELSE 0]
                            ELSE s.phase,
                  !.stats.num_implications = @ + 1]

\* The restart controller with the restart one conflict late.
CountConflict_RestartsOneLate(s) ==
    IF s.restarter = "None" THEN [s |-> s, restart |-> FALSE]
    ELSE IF s.conflicts_before_restart + 1 > s.conflict_limit
    THEN LET g == get_next_luby_number(s.luby_gen)
         IN [s |-> [s EXCEPT !.stats.restarts = @ + 1,
                             !.conflicts_before_restart = 0,
                             !.conflict_limit =
                                 IF s.restarter = "GEOMETRIC" THEN s.conflict_limit * _limit_mult
                                 ELSE _luby_base * Last(g.l),
                             !.luby_gen = IF s.restarter = "LUBY" THEN g ELSE s.luby_gen],
             restart |-> TRUE]
    ELSE [s |-> [s EXCEPT !.conflicts_before_restart = @ + 1], restart |-> FALSE]

\* The restart controller on a conflict: [s, restart].
CountConflict(s) ==
    IF s.restarter = "None" THEN [s |-> s, restart |-> FALSE]
    ELSE IF s.conflicts_before_restart + 1 >= s.conflict_limit
    THEN LET g == get_next_luby_number(s.luby_gen)
         IN [s |-> [s EXCEPT !.stats.restarts = @ + 1,
                             !.conflicts_before_restart = 0,
                             !.conflict_limit =
                                 IF s.restarter = "GEOMETRIC" THEN s.conflict_limit * _limit_mult
                                 ELSE _luby_base * Last(g.l),
                             !.luby_gen = IF s.restarter = "LUBY" THEN g ELSE s.luby_gen],
             restart |-> TRUE]
    ELSE [s |-> [s EXCEPT !.conflicts_before_restart = @ + 1], restart |-> FALSE]

\* The conflict branch of BCP on clause_id: [s, res].
Conflict(s, clause_id) ==
    LET c == CountConflict(s)
    IN IF c.restart THEN [s |-> c.s, res |-> "RESTART"]
       ELSE [s |-> [c.s EXCEPT !.stack =
                        Append(c.s.stack, AssignedNode(-1, FALSE, c.s.level, clause_id))],
             res |-> "CONFLICT"]

\* One iteration of the loop over the watch list of literal_falsed, at index
\* i: [s, res], res = "" when the loop goes on.
WatchStep(s, literal_falsed, i) ==
    LET clause_id == s.watched_by[literal_falsed][i + 1]
        watchers == s.watching[clause_id + 1]
        other_watch == IF watchers[1] = literal_falsed THEN watchers[2] ELSE watchers[1]
        other_var == get_var_from_literal(s, other_watch)
        is_neg_other == is_negative_literal(s, other_watch)
    IN IF LitSatisfied(s, other_watch)
       THEN [s |-> s, res |-> ""]
       ELSE LET new_watcher == FindNewWatcher(s, clause_id)
            IN IF new_watcher # -1
               THEN [s |-> MoveWatch(s, literal_falsed, i, clause_id, new_watcher),
                     res |-> ""]
               ELSE IF ~s.assigned[other_var]
               THEN [s |-> Imply(s, other_var, ~is_neg_other, clause_id), res |-> ""]
               ELSE Conflict(s, clause_id)

\* The iterations at the indices hi down to lo, in that order, stopping at
\* the first that returns: the range is split in two so that a long watch
\* list is walked at a depth of its logarithm.
RECURSIVE WatchRange(_, _, _, _)
WatchRange(r, literal_falsed, hi, lo) ==
    IF r.res # "" \/ hi < lo THEN r
    ELSE IF hi = lo THEN WatchStep(r.s, literal_falsed, hi)
    ELSE LET mid == (hi + lo) \div 2
             upper == WatchRange(r, literal_falsed, hi, mid + 1)
         IN WatchRange(upper, literal_falsed, mid, lo)

\* The loop over the watch list of literal_falsed, downwards from index i:
\* [s, res], res = "" when the loop ran to its end.
WatchLoop(s, literal_falsed, i) ==
    WatchRange([s |-> s, res |-> ""], literal_falsed, i, 0)

\* The loop over the trail from position ptr: [s, res].
RECURSIVE PropagateFrom(_, _)
PropagateFrom(s, ptr) ==
    IF ptr >= Len(s.stack) THEN [s |-> s, res |-> "NO_CONFLICT"]
    ELSE LET literal_falsed == LitFalseOf(s, s.stack[ptr + 1])
             r == WatchLoop(s, literal_falsed, Len(s.watched_by[literal_falsed]) - 1)
         IN IF r.res = "" THEN PropagateFrom(r.s, ptr + 1) ELSE r

\* The trail position at which boolean_constraint_propogation starts.
StartPtr(s, is_first_time) ==
    IF is_first_time \/ Len(s.stack) = 0 THEN 0 ELSE Len(s.stack) - 1

\* The propagation that handles the trail node it starts at and none of the
\* nodes it pushes.
boolean_constraint_propogation_OneNode(s, is_first_time) ==
    LET ptr == StartPtr(s, is_first_time)
    IN IF ptr >= Len(s.stack) THEN [s |-> s, res |-> "NO_CONFLICT"]
       ELSE LET literal_falsed == LitFalseOf(s, s.stack[ptr + 1])
                r == WatchLoop(s, literal_falsed, Len(s.watched_by[literal_falsed]) - 1)
            IN IF r.res = "" THEN [s |-> r.s, res |-> "NO_CONFLICT"] ELSE r

boolean_constraint_propogation(s, is_first_time) ==
    PropagateFrom(s, StartPtr(s, is_first_time))

\* -------------------------------------------------------- analyze_conflict
binary_resolution(s, c1, c2, var) ==
    LET pos_lit == var
        neg_lit == var + s.num_vars
    IN SortedSeq({l \in Range(c1) \cup Range(c2) : l # pos_lit /\ l # neg_lit})

\* The scan of the working clause: the number of its literals whose slot has
\* the conflict level, and among them the slot with the largest index (the
\* default node when there is none).
RECURSIVE ScanClause(_, _, _, _, _)
ScanClause(s, conflict_clause, conflict_level, k, acc) ==
    IF k > Len(conflict_clause) THEN acc
    ELSE LET n == s.nodes[get_var_from_literal(s, conflict_clause[k])]
         IN ScanClause(s, conflict_clause, conflict_level, k + 1,
                IF n.level = conflict_level
                THEN [counter |-> acc.counter + 1,
                      max_idx |-> IF n.index > acc.max_idx THEN n.index ELSE acc.max_idx,
                      cand |-> IF n.index > acc.max_idx THEN n ELSE acc.cand]
                ELSE acc)

\* The resolution loop: [clause, cand, ub].  ub = "none": the loop ended with
\* counter = 1.  ub = "read": it reached _clauses[cand.clause] with
\* cand.clause = -1, a read before the start of the vector.  ub = "loop": the
\* working clause came back to an earlier value, so the loop never ends.
RECURSIVE Resolve(_, _, _, _)
Resolve(s, conflict_clause, conflict_level, seen) ==
    LET r == ScanClause(s, conflict_clause, conflict_level, 1,
                        [counter |-> 0, max_idx |-> -1, cand |-> NoNode])
    IN IF r.counter = 1 THEN [clause |-> conflict_clause, cand |-> r.cand, ub |-> "none"]
       ELSE IF r.cand.clause = -1
       THEN [clause |-> conflict_clause, cand |-> r.cand, ub |-> "read"]
       ELSE LET next == binary_resolution(s, conflict_clause,
                                          s.clauses[r.cand.clause + 1], r.cand.var)
            IN IF next \in seen
               THEN [clause |-> next, cand |-> r.cand, ub |-> "loop"]
               ELSE Resolve(s, next, conflict_level, seen \cup {next})

\* The activity bump of a learned clause and the growth of _incr.
RECURSIVE BumpLearned(_, _, _)
BumpLearned(s, clause, k) ==
    IF k > Len(clause) THEN s
    ELSE LET l == clause[k]
             v == get_var_from_literal(s, l)
         IN BumpLearned(
                IF s.decider = "VSIDS"
                THEN [s EXCEPT !.lit_scores[l] = @ + s.incr,
                               !.pq = increase_update(s.pq, l, s.incr)]
                ELSE [s EXCEPT !.var_scores[v] = @ + s.incr,
                               !.pq = increase_update(s.pq, v, s.incr)],
                clause, k + 1)

\* _incr += 0.75 in quarters; _incr /= 0.85 is _incr * 20 / 17.
NextIncr(decider, incr) ==
    IF decider = "VSIDS" THEN incr + 3 ELSE (incr * 20) \div 17

HeuristicUpdate(s, clause) ==
    IF s.decider = "ORDERED" THEN s
    ELSE [BumpLearned(s, clause, 1) EXCEPT !.incr = NextIncr(s.decider, s.incr)]

\* The backtrack level and the literal at the conflict level of a learned
\* clause of two or more literals: [backtrack_level, lit_at_conflict].
RECURSIVE LevelScan(_, _, _, _, _)
LevelScan(s, clause, conflict_level, k, acc) ==
    IF k > Len(clause) THEN acc
    ELSE LET n == s.nodes[get_var_from_literal(s, clause[k])]
         IN LevelScan(s, clause, conflict_level, k + 1,
                IF n.level = conflict_level
                THEN [acc EXCEPT !.lit_at_conflict = clause[k]]
                ELSE IF n.level > acc.backtrack_level
                THEN [acc EXCEPT !.backtrack_level = n.level]
                ELSE acc)

\* The scan with the level below the conflict's in place of the greatest
\* lower level of the clause.
BacktrackLevel_OneLevelDown(s, clause, conflict_level) ==
    LET r == LevelScan(s, clause, conflict_level, 1,
                       [backtrack_level |-> -1, lit_at_conflict |-> -1])
    IN [r EXCEPT !.backtrack_level = conflict_level - 1]

BacktrackLevel(s, clause, conflict_level) ==
    LET r == LevelScan(s, clause, conflict_level, 1,
                       [backtrack_level |-> -1, lit_at_conflict |-> -1])
    IN [r EXCEPT !.backtrack_level = IF @ = -1 THEN 0 ELSE @]

\* What analyze_conflict does with the clause the resolution loop ended on:
\* [s, first, node].
Learn(s, conflict_clause, conflict_level) ==
    IF Len(conflict_clause) > 1
    THEN LET clause_id == s.num_clauses
             s1 == StoreClause([s EXCEPT !.stats.num_learned_clauses = @ + 1],
                               conflict_clause)
             s2 == HeuristicUpdate(s1, conflict_clause)
             b == BacktrackLevel(s2, conflict_clause, conflict_level)
             var_con == get_var_from_literal(s, b.lit_at_conflict)
             val_set == ~is_negative_literal(s, b.lit_at_conflict)
         IN [s |-> s2, first |-> b.backtrack_level,
             node |-> AssignedNode(var_con, val_set, b.backtrack_level, clause_id)]
    ELSE LET lit == conflict_clause[1]
         IN [s |-> s, first |-> 0,
             node |-> AssignedNode(get_var_from_literal(s, lit),
                                   ~is_negative_literal(s, lit), 0, -1)]

\* analyze_conflict: [s, first, node, ub].
analyze_conflict(s) ==
    LET conflict_node == Last(s.stack)
        s0 == [s EXCEPT !.stack = Front(s.stack)]
        conflict_level == conflict_node.level
        conflict_clause == s.clauses[conflict_node.clause + 1]
    IN IF conflict_level = 0
       THEN [s |-> s0, first |-> -1, node |-> NoNode, ub |-> "none"]
       ELSE LET r == Resolve(s0, conflict_clause, conflict_level, {conflict_clause})
            IN IF r.ub # "none"
               THEN [s |-> s0, first |-> -1, node |-> NoNode, ub |-> r.ub]
               ELSE LET l == Learn(s0, r.clause, conflict_level)
                    IN [s |-> l.s, first |-> l.first, node |-> l.node, ub |-> "none"]

\* --------------------------------------------------------------- backtrack
\* The reinsertion that puts the keys back with a zero score.
Reinsert_WithZeroScore(s, var) ==
    IF s.decider = "VSIDS"
    THEN PQadd(PQadd(s.pq, var, 0), var + s.num_vars, 0)
    ELSE IF s.decider = "MINISAT" THEN PQadd(s.pq, var, 0)
    ELSE s.pq

\* The reinsertion of a popped variable's keys with their current scores.
Reinsert(s, var) ==
    IF s.decider = "VSIDS"
    THEN PQadd(PQadd(s.pq, var, s.lit_scores[var]),
               var + s.num_vars, s.lit_scores[var + s.num_vars])
    ELSE IF s.decider = "MINISAT" THEN PQadd(s.pq, var, s.var_scores[var])
    ELSE s.pq

\* The pop loop of backtrack: [s, oob].  oob: a popped node's variable is no
\* index of _is_var_assigned, so the store that clears it is out of bounds.
RECURSIVE PopAbove(_, _, _)
PopAbove(s, backtrack_level, oob) ==
    IF Len(s.stack) = 0 THEN [s |-> s, oob |-> oob]
    ELSE LET top == Last(s.stack)
         IN IF top.level <= backtrack_level THEN [s |-> s, oob |-> oob]
            ELSE IF is_valid(top)
            THEN PopAbove([s EXCEPT !.assigned = IF top.var \in DOMAIN s.assigned
                                                 THEN [s.assigned EXCEPT ![top.var] = FALSE]
                                                 ELSE s.assigned,
                                    !.pq = Reinsert(s, top.var),
                                    !.stack = Front(s.stack)],
                          backtrack_level, oob \/ top.var \notin DOMAIN s.assigned)
            ELSE PopAbove([s EXCEPT !.stack = Front(s.stack)], backtrack_level, oob)

\* The pending node of backtrack.
AddPending(s, node) ==
    LET s1 == PushNode(s, node)
        q == IF s.decider = "VSIDS"
             THEN PQremove(PQremove(s.pq, node.var), node.var + s.num_vars)
             ELSE IF s.decider = "MINISAT" THEN PQremove(s.pq, node.var)
             ELSE s.pq
    IN [s1 EXCEPT !.pq = q,
                  !.phase = IF s.decider = "MINISAT"
                            THEN [s.phase EXCEPT ![node.var] = IF node.value THEN 1 ELSE 0]
                            ELSE s.phase,
                  !.stats.num_implications = @ + 1]

\* backtrack with the pop loop stopping one level early.
backtrack_StopsOneLevelEarly(s, backtrack_level, node_to_add) ==
    LET r == PopAbove([s EXCEPT !.level = backtrack_level], backtrack_level + 1, FALSE)
    IN [s |-> IF is_valid(node_to_add) THEN AddPending(r.s, node_to_add) ELSE r.s,
        oob |-> r.oob]

\* backtrack(backtrack_level, node_to_add), NoNode for nullptr: [s, oob].
backtrack(s, backtrack_level, node_to_add) ==
    LET r == PopAbove([s EXCEPT !.level = backtrack_level], backtrack_level, FALSE)
    IN [s |-> IF is_valid(node_to_add) THEN AddPending(r.s, node_to_add) ELSE r.s,
        oob |-> r.oob]

\* ------------------------------------------------------------------ inputs
\* Every DIMACS text with at most MaxVars variables, MaxClauses clause lines
\* and MaxLen literals per line (duplicates, tautologies and the empty
\* clause included).
Lits(nv) == (-nv..nv) \ {0}
ClauseLines(nv) == UNION {[1..k -> Lits(nv)] : k \in 0..MaxLen}
SmallInputs ==
    UNION {{[nv |-> n, lines |-> ls] :
               ls \in UNION {[1..m -> ClauseLines(n)] : m \in 0..MaxClauses}} :
           n \in 1..MaxVars}

\* The end-to-end scenarios of the specification (E3, E4, E5) and inputs on
\* which the solver learns clauses of two and three literals.
E3 == [nv |-> 3, lines |-> <<  <<1, 2>>, <<-1, 3>>, <<-2, -3>>  >>]
PHP32 == [nv |-> 6, lines |-> <<  <<1, 2>>, <<3, 4>>, <<5, 6>>,
                                  <<-1, -3>>, <<-1, -5>>, <<-3, -5>>,
                                  <<-2, -4>>, <<-2, -6>>, <<-4, -6>>  >>]
Chain4 == [nv |-> 4, lines |-> <<  <<-1, 2>>, <<-2, 3>>, <<-3, 4>>, <<-4>>  >>]
Learn2 == [nv |-> 3, lines |-> <<  <<-1, -2, 3>>, <<-1, -2, -3>>  >>]
Learn3 == [nv |-> 5, lines |-> <<  <<-3, -5, 4>>, <<-5, -4>>, <<-3, -1, -2, 5>>,
                                   <<3, -4>>, <<-1, 3, 4>>  >>]
\* Satisfiable by 1 = false, 2 = true; variable 3 occurs in no clause.
Unused3 == [nv |-> 3, lines |-> <<  <<-2, -1>>, <<2, -1>>, <<2, 1>>  >>]
\* Satisfiable by 1 = false, 2 = true, 3 = true only.
Forced3 == [nv |-> 3, lines |-> <<  <<-3, -1>>, <<3, -2>>, <<2>>  >>]
\* A line that reduces to one literal and a tautology next to clauses on
\* which the ORDERED decider learns a clause of two literals and then one of
\* a single literal.
Units5 == [nv |-> 5, lines |-> <<  <<5, 5>>, <<3, 4, -3>>, <<-1, -2, 3>>, <<-1, -2, -3>>,
                                   <<-1, 2, 4>>, <<-1, 2, -4>>  >>]
\* The clauses of Units5 with every literal negated: the MINISAT decider,
\* whose first decisions are all false, learns a clause of two literals and
\* then one of a single literal, and the backtrack to level 0 puts variables
\* back in the queue that the first learned clause bumped.
Mirror4 == [nv |-> 4, lines |-> <<  <<1, 2, -3>>, <<1, 2, 3>>, <<1, -2, -4>>, <<1, -2, 4>>  >>]
Scenarios == {E3, PHP32, Chain4, Learn2, Learn3, Unused3, Forced3, Units5, Mirror4}

\* Seven pigeons in six holes (unsatisfiable) with three literals dropped from
\* the pigeon clauses, the variables renamed and the clauses shuffled: under
\* the ORDERED decider its 512th conflict is found at decision level 0.
Pigeons == [nv |-> 42, lines |-> <<
    <<-25, -16>>, <<-28, -15>>, <<-33, -42>>, <<32, 27, 12, 2, 21>>, <<-5, -7>>,
    <<42, 39, 22, 35, 28, 8>>, <<-26, -30>>, <<-12, -18>>, <<-36, -31>>, <<-27, -41>>,
    <<-27, -19>>, <<-18, -37>>, <<-2, -5>>, <<-5, -1>>, <<-42, -20>>, <<-42, -13>>,
    <<-17, -35>>, <<-2, -40>>, <<-39, -9>>, <<-2, -7>>, <<-27, -34>>, <<-24, -31>>,
    <<-19, -34>>, <<-10, -41>>, <<-13, -3>>, <<-29, -6>>, <<-35, -14>>, <<-6, -31>>,
    <<-28, -1>>, <<-16, -13>>, <<-40, -5>>, <<-23, -14>>, <<-35, -18>>, <<-13, -20>>,
    <<-33, -13>>, <<-38, -30>>, <<-4, -38>>, <<25, 4, 10, 23, 40, 29>>, <<-2, -28>>,
    <<-17, -37>>, <<-12, -14>>, <<-33, -25>>, <<-14, -37>>, <<-4, -26>>, <<-4, -39>>,
    <<16, 38, 11, 5, 36>>, <<-4, -9>>, <<-22, -41>>, <<-21, -8>>, <<-11, -19>>,
    <<-9, -26>>, <<-6, -24>>, <<-5, -28>>, <<-28, -7>>, <<-27, -22>>, <<-40, -28>>,
    <<-11, -41>>, <<-40, -15>>, <<-21, -24>>, <<-27, -11>>, <<-20, -3>>, <<-16, -20>>,
    <<-17, -18>>, <<-22, -34>>, <<-40, -7>>, <<-2, -15>>, <<-29, -36>>, <<-1, -15>>,
    <<-15, -7>>, <<-8, -31>>, <<-23, -17>>, <<-16, -3>>, <<-33, -16>>, <<-21, -36>>,
    <<-12, -17>>, <<-32, -39>>, <<-29, -24>>, <<-29, -31>>, <<-2, -1>>, <<-10, -19>>,
    <<-25, -20>>, <<13, 9, 41, 14, 1, 6>>, <<-23, -37>>, <<-38, -39>>,
    <<20, 26, 19, 18, 15, 24>>, <<-33, -20>>, <<-8, -24>>, <<-38, -9>>, <<-32, -30>>,
    <<-25, -13>>, <<-39, -26>>, <<-21, -31>>, <<-32, -9>>, <<-11, -34>>, <<-17, -14>>,
    <<-41, -34>>, <<-33, -3>>, <<-40, -1>>, <<-10, -34>>, <<-12, -23>>, <<-11, -22>>,
    <<-23, -18>>, <<-32, -26>>, <<-36, -8>>, <<-32, -38>>, <<-41, -19>>, <<-36, -24>>,
    <<3, 30, 34, 7, 31>>, <<-29, -8>>, <<-9, -30>>, <<-4, -30>>, <<-25, -3>>,
    <<-10, -22>>, <<-36, -6>>, <<-35, -37>>, <<-42, -3>>, <<-21, -29>>, <<-27, -10>>,
    <<-39, -30>>, <<-8, -6>>, <<-16, -42>>, <<-1, -7>>, <<-38, -26>>, <<-14, -18>>,
    <<-12, -35>>, <<-32, -4>>, <<-5, -15>>, <<-23, -35>>, <<-22, -19>>, <<-21, -6>>,
    <<-10, -11>>, <<-25, -42>>, <<-12, -37>>  >>]

Inputs == SmallInputs \cup Scenarios

\* The same family, another renaming: its 512th conflict is found at decision
\* level 1, and four conflicts later the run ends.
Pigeons1 == [nv |-> 42, lines |-> <<
    <<-20, -36>>, <<-36, -31>>, <<-15, -30>>, <<-37, -22>>, <<-21, -19>>, <<-7, -17>>,
    <<-17, -29>>, <<-7, -39>>, <<-32, -11>>, <<-37, -19>>, <<-15, -33>>, <<-25, -4>>,
    <<-33, -24>>, <<-22, -13>>, <<-30, -24>>, <<-29, -39>>, <<-32, -7>>, <<-6, -29>>,
    <<-30, -33>>, <<-35, -16>>, <<-8, -25>>, <<-11, -7>>, <<-32, -29>>, <<-11, -6>>,
    <<-36, -10>>, <<-41, -13>>, <<-16, -2>>, <<-16, -5>>, <<-14, -35>>, <<-30, -9>>,
    <<-30, -1>>, <<-6, -7>>, <<-23, -12>>, <<-20, -12>>, <<-21, -41>>, <<-14, -5>>,
    <<-8, -27>>, <<-37, -41>>, <<-26, -19>>, <<-40, -36>>, <<-9, -3>>, <<-4, -38>>,
    <<-19, -13>>, <<-25, -27>>, <<-32, -17>>, <<-22, -19>>, <<-11, -39>>, <<-26, -13>>,
    <<-22, -41>>, <<-26, -22>>, <<-22, -21>>, <<-40, -12>>, <<-15, -9>>, <<-14, -18>>,
    <<-41, -19>>, <<-18, -5>>, <<-28, -8>>, <<-32, -6>>, <<-11, -17>>, <<-28, -4>>,
    <<-14, -16>>, <<-12, -31>>, <<-35, -2>>, <<-33, -3>>, <<-21, -13>>, <<-14, -42>>,
    <<-28, -25>>, <<29, 12, 2, 19, 38>>, <<-30, -3>>, <<-26, -41>>, <<-14, -2>>,
    <<-18, -42>>, <<-28, -27>>, <<-40, -31>>, <<-34, -38>>, <<-35, -5>>, <<-32, -39>>,
    <<-4, -27>>, <<-37, -21>>, <<-15, -1>>, <<-23, -10>>, <<-34, -27>>, <<-20, -23>>,
    <<-9, -33>>, <<-40, -23>>, <<-7, -29>>, <<-18, -2>>, <<17, 10, 5, 1, 4>>,
    <<-26, -37>>, <<-8, -34>>, <<-3, -24>>, <<-28, -34>>, <<-17, -39>>,
    <<32, 40, 14, 26, 15, 28>>, <<39, 31, 42, 13, 24>>, <<-6, -39>>,
    <<6, 36, 18, 22, 9, 34>>, <<-5, -42>>, <<-6, -17>>, <<-8, -38>>, <<-37, -13>>,
    <<-11, -29>>, <<-9, -24>>, <<11, 20, 35, 37, 30, 8>>, <<-16, -42>>, <<-1, -24>>,
    <<-40, -10>>, <<-25, -38>>, <<-20, -31>>, <<-33, -1>>, <<-9, -1>>, <<-23, -31>>,
    <<-10, -31>>, <<-34, -25>>, <<7, 23, 16, 21, 33, 25>>, <<-28, -38>>, <<-20, -10>>,
    <<-1, -3>>, <<-10, -12>>, <<-40, -20>>, <<-2, -42>>, <<-5, -2>>, <<-18, -16>>,
    <<-35, -42>>, <<-8, -4>>, <<-38, -27>>, <<-35, -18>>, <<-36, -12>>, <<-15, -3>>,
    <<-15, -24>>, <<-26, -21>>, <<-34, -4>>, <<-36, -23>>  >>]

\* No program of sat_solver_package is running.
NoSolver == [class |-> "none"]

\* ---------------------------------------------------------------- SAT::SAT
\* The members as their initialisers leave them, and the locals of solve
\* and of the verifier's main.
SatDefaults ==
    /\ lineNo = 0
    /\ first_time = TRUE
    /\ res = ""
    /\ analysis = <<0, NoNode>>
    /\ conflict_at_0 = FALSE
    /\ ops = 0
    /\ is_correct = FALSE
    /\ _num_clauses = 0
    /\ _num_vars = 0
    /\ _level = 0
    /\ _clauses = <<>>
    /\ _clauses_watched_by_l = <<>>
    /\ _literals_watching_c = <<>>
    /\ _variable_to_assignment_nodes = <<>>
    /\ _is_var_assigned = <<>>
    /\ _assignment_stack = <<>>
    /\ _conflicts_before_restart = 0
    /\ _lit_scores = <<>>
    /\ _var_scores = <<>>
    /\ _phase = <<>>
    /\ _incr = ScoreOne(_decider)
    /\ _priority_queue = EmptyQueue
    /\ stats = [result |-> "", num_learned_clauses |-> 0, num_decisions |-> 0,
                num_implications |-> 0, restarts |-> 0]

MemberDefaults ==
    /\ solver = NoSolver
    /\ SatDefaults

\* main goes on to construct the solver with this many arguments.
MinArgc == 5

\* The state after construction for one input, decider and restarter.
InitFor(inputs, deciders, restarters) ==
    /\ argc = MinArgc
    /\ file \in inputs
    /\ _decider \in deciders
    /\ _restarter \in restarters
    /\ pc = "read_header"
    /\ assgn_dict = <<>>
    /\ MemberDefaults
    /\ _conflict_limit = IF _restarter = "None" THEN 0
                         ELSE IF _restarter = "GEOMETRIC" THEN GeometricStart
                         ELSE _luby_base * Last(get_next_luby_number(LubyReset).l)
    /\ _luby_gen = IF _restarter = "LUBY" THEN get_next_luby_number(LubyReset) ELSE LubyReset

\* Every small input under every decider and restart policy, and the inputs
\* that reach the restart threshold under the two policies that restart.
Init ==
    \/ InitFor(Inputs, {"ORDERED", "VSIDS", "MINISAT"}, {"None", "GEOMETRIC", "LUBY"})
    \/ InitFor({Pigeons, Pigeons1}, {"ORDERED"}, {"GEOMETRIC", "LUBY"})

\* ----------------------------------------------- read_dimacs_cnf_file, solve
ctl == <<argc, file, _decider, _restarter, ops, assgn_dict, solver, is_correct>>
kept == <<ctl, conflict_at_0>>

\* A path that cannot be opened: there is no text to read.
NoFile == [nv |-> -1, lines |-> <<>>]

\* The 'p cnf' line of a file that opened.
ReadHeader ==
    /\ pc = "read_header"
    /\ file # NoFile
    /\ Set(ReadHeaderLine(St, file.nv))
    /\ pc' = IF Len(file.lines) = 0 THEN "end_read" ELSE "read"
    /\ UNCHANGED <<kept, lineNo, first_time, res, analysis>>

\* One clause line: converted, handed to add_clause; a return of 0 ends the
\* reading, and so does the end of the file.
AfterAddClause(r) ==
    /\ Set(r.s)
    /\ pc' = IF r.ret = 0 \/ lineNo + 1 = Len(file.lines) THEN "end_read" ELSE "read"

ReadClauseLine ==
    /\ pc = "read"
    /\ AfterAddClause(add_clause(St, ToInternal(_num_vars, file.lines[lineNo + 1])))
    /\ lineNo' = lineNo + 1
    /\ UNCHANGED <<kept, first_time, res, analysis>>

\* The priority queue is initialised; solve then ends the run if add_clause
\* set UNSAT, and enters the search loop otherwise.
EndRead ==
    /\ pc = "end_read"
    /\ Set(InitPriorityQueue(St))
    /\ pc' = IF stats.result = "UNSAT" THEN "done" ELSE "bcp"
    /\ UNCHANGED <<kept, lineNo, first_time, res, analysis>>

\* res = boolean_constraint_propogation(first_time) and what solve does next.
AfterPropagate(r) ==
    /\ Set(r.s)
    /\ res' = r.res
    /\ conflict_at_0' = (conflict_at_0 \/ (r.res # "NO_CONFLICT" /\ _level = 0))
    /\ pc' = IF r.res = "NO_CONFLICT" THEN "decide"
              ELSE IF r.res = "RESTART" THEN "restart" ELSE "analyze"

Propagate ==
    /\ pc = "bcp"
    /\ AfterPropagate(boolean_constraint_propogation(St, first_time))
    /\ first_time' = FALSE
    /\ UNCHANGED <<ctl, lineNo, analysis>>

\* The outcomes of a step that stores out of bounds: the store breaks the
\* process, or it lands where nothing reads it.
Outcomes(undefined) == IF undefined THEN {"crash", "go"} ELSE {"go"}

AfterBacktrack(r, next) ==
    /\ Set(r.s)
    /\ \E o \in Outcomes(r.oob) : pc' = IF o = "crash" THEN "crashed" ELSE next

\* backtrack(0, nullptr) after RESTART.
Restart ==
    /\ pc = "restart"
    /\ AfterBacktrack(backtrack(St, 0, NoNode), "decide")
    /\ UNCHANGED <<kept, lineNo, first_time, res, analysis>>

\* A run that keeps scores is followed for MaxBumps learned clauses (the
\* scores stay whole numbers of the model's unit that long); a conflict at
\* level 0 learns nothing.
BumpsLeft == _decider # "ORDERED" => stats.num_learned_clauses < MaxBumps

\* analysis = analyze_conflict(); -1 ends the run with UNSAT.  The read of
\* _clauses[-1] breaks the process or feeds the loop garbage it never leaves;
\* a loop that returns to an earlier working clause never ends.
AfterAnalyze(r) ==
    IF r.ub = "none"
    THEN /\ Set(IF r.first = -1 THEN [r.s EXCEPT !.stats.result = "UNSAT"] ELSE r.s)
         /\ analysis' = <<r.first, r.node>>
         /\ pc' = IF r.first = -1 THEN "done" ELSE "backtrack"
    ELSE /\ Set(r.s)
         /\ analysis' = analysis
         /\ \E o \in IF r.ub = "read" THEN {"crashed", "hung"} ELSE {"hung"} : pc' = o

Analyze ==
    /\ pc = "analyze"
    /\ _level = 0 \/ BumpsLeft
    /\ AfterAnalyze(analyze_conflict(St))
    /\ UNCHANGED <<kept, lineNo, first_time, res>>

\* backtrack(analysis.first, &analysis.second).
Backtrack ==
    /\ pc = "backtrack"
    /\ AfterBacktrack(backtrack(St, analysis[1], analysis[2]), "bcp")
    /\ UNCHANGED <<kept, lineNo, first_time, res, analysis>>

\* The flags a decide can leave.  The store of the node at an index past the
\* end of _variable_to_assignment_nodes breaks the process, lands in memory
\* nothing reads, or lands in the storage behind that vector, where the flags
\* of _is_var_assigned live: any flags can come out of it.
FlagsAfter(r) ==
    IF r.oob THEN [DOMAIN r.s.assigned -> BOOLEAN] ELSE {r.s.assigned}

\* var = decide(); -1 ends the run with SAT.
AfterDecide(r) ==
    \E o \in Outcomes(r.oob) :
        IF o = "crash"
        THEN Set(r.s) /\ pc' = "crashed"
        ELSE \E flags \in FlagsAfter(r) :
                /\ Set(IF r.var = -1 THEN [r.s EXCEPT !.stats.result = "SAT"]
                       ELSE [r.s EXCEPT !.assigned = flags])
                /\ pc' = IF r.var = -1 THEN "done" ELSE "bcp"

Decide ==
    /\ pc = "decide"
    /\ AfterDecide(decide(St))
    /\ UNCHANGED <<kept, lineNo, first_time, res, analysis>>

Next ==
    \/ ReadHeader
    \/ ReadClauseLine
    \/ EndRead
    \/ Propagate
    \/ Restart
    \/ Analyze
    \/ Backtrack
    \/ Decide

Spec == Init /\ [][Next]_vars

\* --------------------------------------------------------------------- main
Deciders == {"ORDERED", "VSIDS", "MINISAT"}
Restarters == {"None", "GEOMETRIC", "LUBY"}

\* main up to the call of solve: too few arguments return 1; the constructor
\* throws on a decider or restarter it does not know and main returns 1;
\* otherwise the solver is constructed and solve begins.
MainStart ==
    /\ pc = "main"
    /\ pc' = IF argc < MinArgc \/ _decider \notin Deciders \/ _restarter \notin Restarters
              THEN "returned_1" ELSE "read_header"
    /\ _conflict_limit' =
          IF pc' = "returned_1" \/ _restarter = "None" THEN _conflict_limit
          ELSE IF _restarter = "GEOMETRIC" THEN GeometricStart
          ELSE _luby_base * Last(get_next_luby_number(LubyReset).l)
    /\ _luby_gen' = IF pc' = "read_header" /\ _restarter = "LUBY"
                     THEN get_next_luby_number(LubyReset) ELSE _luby_gen
    /\ UNCHANGED <<kept, lineNo, first_time, res, analysis, _num_clauses, _num_vars,
                   _level, _clauses, _clauses_watched_by_l, _literals_watching_c,
                   _variable_to_assignment_nodes, _is_var_assigned, _assignment_stack,
                   _conflicts_before_restart, _lit_scores, _var_scores, _phase, _incr,
                   _priority_queue, stats>>

\* read_dimacs_cnf_file throws on a file that does not open; solve catches
\* the exception, prints it and returns.
OpenFails ==
    /\ pc = "read_header"
    /\ file = NoFile
    /\ pc' = "open_failed"
    /\ UNCHANGED <<kept, lineNo, first_time, res, analysis, solverVars>>

\* solve has returned: main prints the statistics and returns 0.
MainReturn ==
    /\ pc \in {"done", "open_failed"}
    /\ pc' = "returned_0"
    /\ UNCHANGED <<kept, lineNo, first_time, res, analysis, solverVars>>

\* Every command line over the small inputs, with an argument short, a name
\* the constructor does not know, or a path that does not open among them.
InitMain ==
    /\ \/ /\ argc \in {MinArgc - 1, MinArgc}
          /\ file \in Inputs \cup {NoFile}
          /\ _decider \in Deciders \cup {"Other"}
          /\ _restarter \in Restarters \cup {"Other"}
       \/ /\ argc = MinArgc
          /\ file = Pigeons1
          /\ _decider = "ORDERED"
          /\ _restarter = "GEOMETRIC"
    /\ pc = "main"
    /\ assgn_dict = <<>>
    /\ MemberDefaults
    /\ _conflict_limit = 0
    /\ _luby_gen = LubyReset

NextMain == MainStart \/ OpenFails \/ MainReturn \/ Next

SpecMain == InitMain /\ [][NextMain]_vars

\* ------------------------------------------------------------ properties
\* The per-variable assignment written to the assignment file on SAT.
Emitted == [v \in {x \in 1.._num_vars : _is_var_assigned[x]} |->
               _variable_to_assignment_nodes[v].value]

\* The run ended with the given result.
Ended(result) == pc = "done" /\ stats.result = result

\* The run stopped at the bound on learned clauses.
Stalled == pc = "analyze" /\ _level # 0 /\ ~BumpsLeft

\* A literal of the DIMACS text is true in the emitted assignment.
DimacsTrue(l) == Abs(l) \in DOMAIN Emitted /\ Emitted[Abs(l)] = (l > 0)

InputSatisfied ==
    \A i \in 1..Len(file.lines) :
        \E j \in 1..Len(file.lines[i]) : DimacsTrue(file.lines[i][j])

\* The DIMACS text has a satisfying assignment.
Satisfiable ==
    \E a \in [1..file.nv -> BOOLEAN] :
        \A i \in 1..Len(file.lines) :
            \E j \in 1..Len(file.lines[i]) :
                a[Abs(file.lines[i][j])] = (file.lines[i][j] > 0)

\* An internal literal is falsified, or satisfied, by the per-variable state.
LitFalse(l) ==
    LET v == IF l > _num_vars THEN l - _num_vars ELSE l
    IN _is_var_assigned[v] /\ _variable_to_assignment_nodes[v].value = (l > _num_vars)
LitTrue(l) ==
    LET v == IF l > _num_vars THEN l - _num_vars ELSE l
    IN _is_var_assigned[v] /\ _variable_to_assignment_nodes[v].value = (l <= _num_vars)

\* boolean_constraint_propogation has just returned NO_CONFLICT.
Quiet == pc = "decide" /\ res = "NO_CONFLICT"

\* Between two operations of the solver, after parsing.
Between == pc \in {"bcp", "restart", "analyze", "backtrack", "decide", "done"}

AllAssigned == \A v \in 1.._num_vars : _is_var_assigned[v]

\* The clause ids the model numbers from 1 where the code numbers from 0.
ClauseIds == 0..(Len(_clauses) - 1)
Watches(c) == _literals_watching_c[c + 1]
InClause(l, c) == \E k \in 1..Len(_clauses[c + 1]) : _clauses[c + 1][k] = l

\* A watch of some clause is no longer one of its first two literals, and a
\* learned clause is in the database.
WatchMoved ==
    /\ \E c \in ClauseIds : Watches(c) # <<_clauses[c + 1][1], _clauses[c + 1][2]>>
    /\ stats.num_learned_clauses > 0

\* C1: whenever solve ends with result SAT, the values of the per-variable
\* assignment satisfy every clause of the input, for every decider and
\* restart policy.
C1_SatAssignmentSatisfiesInput == Ended("SAT") => InputSatisfied

\* C2: whenever solve ends with result UNSAT, the input has no satisfying
\* assignment.
C2_UnsatOnlyIfUnsatisfiable == Ended("UNSAT") => ~Satisfiable

\* C3: the search loop terminates: no run enters a computation that it
\* never leaves.
C3_SearchTerminates == pc # "hung"

\* C4: a run in which boolean_constraint_propogation found a clause with all
\* its literals falsified at decision level 0 (it then returned CONFLICT or,
\* at the restart threshold, RESTART) ends with result UNSAT.
C4_LevelZeroConflictEndsUnsat ==
    pc = "done" /\ conflict_at_0 => stats.result = "UNSAT"

\* C5: decide returns 'none' only in a state where every variable of 1..N is
\* assigned, so that when SAT is reported the assignment is total.
C5_SatAssignmentTotal ==
    [][pc = "decide" /\ pc' = "done" => AllAssigned /\ AllAssigned']_vars

C7_WatchListsMatchWatches ==
    Between =>
        /\ \A l \in DOMAIN _clauses_watched_by_l :
              \A i \in 1..Len(_clauses_watched_by_l[l]) :
                  LET c == _clauses_watched_by_l[l][i]
                  IN c \in ClauseIds /\ (l = Watches(c)[1] \/ l = Watches(c)[2])
        /\ \A c \in ClauseIds : \A w \in {Watches(c)[1], Watches(c)[2]} :
              Cardinality({i \in 1..Len(_clauses_watched_by_l[w]) :
                              _clauses_watched_by_l[w][i] = c}) = 1

C7_Witness == pc = "backtrack" /\ WatchMoved

\* C8: when boolean_constraint_propogation returns NO_CONFLICT every clause
\* of the database is satisfied or has two literals that are not falsified.
C8_PropagationExhaustive ==
    Quiet => \A c \in ClauseIds :
        \/ \E k \in 1..Len(_clauses[c + 1]) : LitTrue(_clauses[c + 1][k])
        \/ Cardinality({k \in 1..Len(_clauses[c + 1]) : ~LitFalse(_clauses[c + 1][k])}) >= 2

\* The trail nodes of the assigned variables.
TrailVars == {i \in 1..Len(_assignment_stack) : _assignment_stack[i].var \in 1.._num_vars}

\* C9: the trail is ordered by level: of two assigned variables the one with
\* the smaller level has the smaller trail position.
C9_TrailOrderedByLevel ==
    \A i, j \in TrailVars :
        _assignment_stack[i].level < _assignment_stack[j].level => i < j

\* A restart has happened, and the trail holds level-0 nodes below a
\* decision and a node implied above level 0.
C9_Witness ==
    /\ stats.restarts > 0
    /\ \E i, j \in TrailVars :
          /\ _assignment_stack[i].level = 0
          /\ _assignment_stack[j].level > 0 /\ _assignment_stack[j].clause # -1

\* C10: for every trail node with a clause as antecedent, the clause holds
\* the literal the node makes true, and each other literal of the clause is
\* falsified by a node pushed before it at a level not above the node's.
C10_AntecedentsImply ==
    \A i \in TrailVars :
        LET n == _assignment_stack[i]
            t == IF n.value THEN n.var ELSE n.var + _num_vars
        IN n.clause # -1 =>
              /\ InClause(t, n.clause)
              /\ \A k \in 1..Len(_clauses[n.clause + 1]) :
                    _clauses[n.clause + 1][k] # t =>
                        \E j \in TrailVars :
                            /\ j < i
                            /\ _assignment_stack[j].level <= n.level
                            /\ _clauses[n.clause + 1][k] =
                                  IF _assignment_stack[j].value
                                  THEN _assignment_stack[j].var + _num_vars
                                  ELSE _assignment_stack[j].var

\* analyze_conflict has returned a clause and a pending node; the trail is
\* the one of the conflict.
Analysed == pc = "backtrack"

\* backtrack has just pushed the pending node of the last analysis.
Backjumped == pc = "bcp" /\ res = "CONFLICT"

\* The clause the last analysis produced: the learned clause stored under the
\* pending node's antecedent, or the one literal of a unit result.
LearnedClause ==
    IF analysis[2].clause # -1 THEN _clauses[analysis[2].clause + 1]
    ELSE << IF analysis[2].value THEN analysis[2].var
            ELSE analysis[2].var + _num_vars >>

\* The literal is falsified by a variable assigned at the given level.
FalseAtLevel(l, lvl) ==
    LET v == IF l > _num_vars THEN l - _num_vars ELSE l
    IN LitFalse(l) /\ _variable_to_assignment_nodes[v].level = lvl

\* C11: the clause analyze_conflict produces has all its literals falsified
\* by the trail of the conflict and exactly one of them at the conflict
\* level; after backtrack every other literal is still falsified and the
\* pending node makes that one literal true.
C11_LearnedClauseAsserting ==
    /\ Analysed =>
          /\ \A k \in 1..Len(LearnedClause) : LitFalse(LearnedClause[k])
          /\ Cardinality({k \in 1..Len(LearnedClause) :
                              FalseAtLevel(LearnedClause[k], _level)}) = 1
    /\ Backjumped =>
          \E k \in 1..Len(LearnedClause) :
              /\ LitTrue(LearnedClause[k])
              /\ Last(_assignment_stack).var = analysis[2].var
              /\ LearnedClause[k] = IF analysis[2].value THEN analysis[2].var
                                    ELSE analysis[2].var + _num_vars
              /\ \A j \in 1..Len(LearnedClause) :
                    j # k => LitFalse(LearnedClause[j])

\* The level of the variable of a literal, as the nodes record it.
LevelOf(l) ==
    _variable_to_assignment_nodes[IF l > _num_vars THEN l - _num_vars ELSE l].level
LowerLevels(W) == {LevelOf(W[k]) : k \in 1..Len(W)} \cap 0..(_level - 1)
MaxOf(S) == CHOOSE x \in S : \A y \in S : y <= x

\* A step of analyze_conflict that returns a level to backtrack to; it has
\* learned a clause of two or more literals when it stored one.
Analysing == pc = "analyze" /\ pc' = "backtrack"
StoredClause == _num_clauses' = _num_clauses + 1

\* C20: for a learned clause of two or more literals the level
\* analyze_conflict returns is the greatest level, below the conflict level,
\* of the variables of the clause, it is below the conflict level, and the
\* pending node carries that level and the id of the new clause as its
\* antecedent; for a learned clause of one literal the level returned is 0
\* and the pending node has level 0 and no antecedent.
C20_BackjumpLevel ==
    [][Analysing =>
          IF StoredClause
          THEN LET W == _clauses'[_num_clauses']
               IN /\ Len(W) > 1
                  /\ LowerLevels(W) # {}
                  /\ analysis'[1] = MaxOf(LowerLevels(W))
                  /\ analysis'[1] < _level
                  /\ analysis'[2].level = analysis'[1]
                  /\ analysis'[2].clause = _num_clauses
          ELSE /\ _clauses' = _clauses
               /\ analysis'[1] = 0
               /\ analysis'[2].level = 0
               /\ analysis'[2].clause = -1]_vars

\* analyze_conflict has returned a level above 0 for a stored clause, and it
\* has returned a unit clause.
C20_Witness ==
    /\ Analysed
    /\ analysis[1] > 0
    /\ analysis[2].clause = _num_clauses - 1
    /\ Len(LearnedClause) > 1
    /\ analysis[1] < _level - 1

\* The watches registered for the clause a step of analyze_conflict stores.
NewClause == _clauses'[_num_clauses']
NewWatches == _literals_watching_c'[_num_clauses']

\* C21: of the two watches analyze_conflict registers for a learned clause
\* of two or more literals, one is the asserting literal (the literal at the
\* conflict level) and the other is a literal whose variable has the largest
\* level among the remaining literals.
C21_LearnedWatches ==
    [][(Analysing /\ StoredClause) =>
          \E a \in {1, 2} :
              LET asserting == NewWatches[a]
                  other == NewWatches[3 - a]
                  rest == Range(NewClause) \ {asserting}
              IN /\ LevelOf(asserting) = _level
                 /\ other \in rest
                 /\ \A l \in rest : LevelOf(l) <= LevelOf(other)]_vars

\* The assignments that satisfy the DIMACS text.
Models ==
    {a \in [1..file.nv -> BOOLEAN] :
        \A i \in 1..Len(file.lines) :
            \E j \in 1..Len(file.lines[i]) :
                a[Abs(file.lines[i][j])] = (file.lines[i][j] > 0)}

\* An internal literal is true in an assignment of the variables 1..N.
TrueIn(a, l) ==
    IF l > _num_vars THEN l - _num_vars \in DOMAIN a /\ ~a[l - _num_vars]
    ELSE l \in DOMAIN a /\ a[l]

\* The clauses analyze_conflict has stored (the last ones of the database),
\* and the trail nodes at level 0 that have no antecedent.
LearnedIds == (Len(_clauses) - stats.num_learned_clauses + 1)..Len(_clauses)
UnitFacts ==
    {i \in 1..Len(_assignment_stack) :
        _assignment_stack[i].level = 0 /\ _assignment_stack[i].clause = -1}

\* C22: every clause analyze_conflict has added to the database, and every
\* unit fact asserted at level 0, is a consequence of the input: every
\* assignment that satisfies the input satisfies it.
C22_LearnedAreConsequences ==
    (Between /\ (stats.num_learned_clauses > 0 \/ UnitFacts # {})) =>
        \A a \in Models :
            /\ \A c \in LearnedIds :
                  \E k \in 1..Len(_clauses[c]) : TrueIn(a, _clauses[c][k])
            /\ \A i \in UnitFacts :
                  TrueIn(a, IF _assignment_stack[i].value THEN _assignment_stack[i].var
                            ELSE _assignment_stack[i].var + _num_vars)

\* A step of backtrack: from solve's call after an analysis, or after RESTART
\* with level 0 and no pending node.
Backtracking == pc \in {"backtrack", "restart"}
ToLevel == IF pc = "restart" THEN 0 ELSE analysis[1]
Pending == IF pc = "restart" THEN NoNode ELSE analysis[2]
KeptNodes ==
    LET AtOrBelow(n) == n.level <= ToLevel
    IN SelectSeq(_assignment_stack, AtOrBelow)
RemovedVars ==
    {_assignment_stack[i].var : i \in {j \in 1..Len(_assignment_stack) :
                                         /\ _assignment_stack[j].level > ToLevel
                                         /\ is_valid(_assignment_stack[j])}}
KeysOf(v) ==
    IF _decider = "VSIDS" THEN {v, v + _num_vars}
    ELSE IF _decider = "MINISAT" THEN {v} ELSE {}

Deciding == pc = "decide" /\ pc' # "done"
OnTrail(v) == \E i \in 1..Len(_assignment_stack) : _assignment_stack[i].var = v

\* C25: every call of decide that returns a variable assigns a variable of
\* 1..N that was unassigned and not on the trail, pushes exactly one node for
\* it at the next level with no antecedent, and touches no per-variable slot
\* outside 1..N.
C25_DecideInRange ==
    [][Deciding =>
          /\ pc' = "bcp"
          /\ Len(_assignment_stack') = Len(_assignment_stack) + 1
          /\ LET n == Last(_assignment_stack')
             IN /\ _assignment_stack' = Append(_assignment_stack, n)
                /\ n.var \in 1.._num_vars
                /\ ~_is_var_assigned[n.var]
                /\ ~OnTrail(n.var)
                /\ n.level = _level + 1
                /\ _level' = _level + 1
                /\ n.clause = -1
                /\ _is_var_assigned' = [_is_var_assigned EXCEPT ![n.var] = TRUE]
                /\ \A v \in 1.._num_vars :
                      v # n.var => _variable_to_assignment_nodes'[v] =
                                      _variable_to_assignment_nodes[v]]_vars

\* The states in which the loop over the trail of a BCP call from position
\* ptr begins the watch list of a falsified literal: [s, l].
RECURSIVE LoopStarts(_, _)
LoopStarts(s, ptr) ==
    IF ptr >= Len(s.stack) THEN {}
    ELSE LET literal_falsed == LitFalseOf(s, s.stack[ptr + 1])
             r == WatchLoop(s, literal_falsed, Len(s.watched_by[literal_falsed]) - 1)
         IN {[s |-> s, l |-> literal_falsed]} \cup
            (IF r.res = "" THEN LoopStarts(r.s, ptr + 1) ELSE {})

\* The loop over a watch list with the clause ids it examines recorded in
\* order: [s, res, seen].
ExamineStep(r, literal_falsed, i) ==
    LET w == WatchStep(r.s, literal_falsed, i)
    IN [s |-> w.s, res |-> w.res,
        seen |-> Append(r.seen, r.s.watched_by[literal_falsed][i + 1])]

RECURSIVE ExamineRange(_, _, _, _)
ExamineRange(r, literal_falsed, hi, lo) ==
    IF r.res # "" \/ hi < lo THEN r
    ELSE IF hi = lo THEN ExamineStep(r, literal_falsed, hi)
    ELSE LET mid == (hi + lo) \div 2
             upper == ExamineRange(r, literal_falsed, hi, mid + 1)
         IN ExamineRange(upper, literal_falsed, mid, lo)

Examined(st) ==
    ExamineRange([s |-> st.s, res |-> "", seen |-> <<>>], st.l,
                 Len(st.s.watched_by[st.l]) - 1, 0)

NoRepeats(q) == \A i, j \in 1..Len(q) : q[i] = q[j] => i = j

\* C26: in the loop over the watch list of a falsified literal l that does
\* not end early with CONFLICT or RESTART, every clause id in the list at the
\* start is examined exactly once, and the clauses left in the list are
\* exactly those that kept l as a watch.
C26_WatchListTraversal ==
    pc = "bcp" =>
        \A st \in LoopStarts(St, StartPtr(St, first_time)) :
            LET start == st.s.watched_by[st.l]
                t == Examined(st)
                left == t.s.watched_by[st.l]
            IN t.res = "" =>
                  /\ Len(t.seen) = Len(start)
                  /\ \A c \in Range(start) :
                        Cardinality({k \in 1..Len(t.seen) : t.seen[k] = c}) = 1
                  /\ NoRepeats(left)
                  /\ Range(left) = {c \in Range(start) :
                                       st.l \in Range(t.s.watching[c + 1])}

\* A list of three or more clauses is traversed to its end, and a clause
\* that is not the last of the list leaves it while the last one stays.
C26_Witness ==
    /\ pc = "bcp"
    /\ \E st \in LoopStarts(St, StartPtr(St, first_time)) :
          LET start == st.s.watched_by[st.l]
              t == Examined(st)
              left == t.s.watched_by[st.l]
          IN /\ t.res = ""
             /\ Len(start) >= 3
             /\ Last(start) \in Range(left)
             /\ \E k \in 1..(Len(start) - 1) : start[k] \notin Range(left)

\* The loops over the watch lists of the trail nodes from position ptr up to,
\* and without, position last, run again: [s, res], res = "" when none of
\* them ended early.
RECURSIVE Replay(_, _, _)
Replay(s, ptr, last) ==
    IF ptr >= last THEN [s |-> s, res |-> ""]
    ELSE LET literal_falsed == LitFalseOf(s, s.stack[ptr + 1])
             r == WatchLoop(s, literal_falsed, Len(s.watched_by[literal_falsed]) - 1)
         IN IF r.res # "" THEN r ELSE Replay(r.s, ptr + 1, last)

\* C27: at every invocation of BCP after the first one, every trail node but
\* the last has been completely propagated, so that starting the cursor at
\* the last trail index leaves no assignment unpropagated: the loops over the
\* watch lists of the earlier nodes imply nothing and find no conflict.
C27_CursorAtLastNode ==
    (pc = "bcp" /\ ~first_time /\ Len(_assignment_stack) > 0) =>
        LET r == Replay(St, 0, Len(_assignment_stack) - 1)
        IN r.res = "" /\ r.s.stack = _assignment_stack

\* The clauses of the input that are stored in the database: those before
\* the learned ones.
InputIds == 0..(Len(_clauses) - stats.num_learned_clauses - 1)
TrueAtOrBelow(l, lvl) ==
    LET v == IF l > _num_vars THEN l - _num_vars ELSE l
    IN LitTrue(l) /\ _variable_to_assignment_nodes[v].level <= lvl

C29_SlotsMatchTrail ==
    pc # "analyze" =>
        /\ NoRepeats([i \in 1..Len(_assignment_stack) |-> _assignment_stack[i].var])
        /\ \A v \in 1.._num_vars : _is_var_assigned[v] <=> OnTrail(v)
        /\ \A i \in 1..Len(_assignment_stack) :
              LET n == _assignment_stack[i]
              IN /\ n.var \in 1.._num_vars
                 /\ _variable_to_assignment_nodes[n.var] = [n EXCEPT !.index = i - 1]

\* The keys present in the priority queue of the solver.
KeysInQueue == {k \in DOMAIN _priority_queue.indices : _priority_queue.indices[k] # -1}
Unassigned == {v \in 1.._num_vars : ~_is_var_assigned[v]}

\* C13: under VSIDS and MINISAT, between operations the keys in the queue
\* are exactly those of the unassigned variables of 1..N: v and v + N of
\* each under VSIDS, v under MINISAT.
C13_QueueHoldsUnassigned ==
    Between /\ _decider # "ORDERED" =>
        KeysInQueue = IF _decider = "VSIDS"
                      THEN Unassigned \cup {v + _num_vars : v \in Unassigned}
                      ELSE Unassigned

\* The ways the step of solve at the current position can come out: one
\* where the code's behaviour is defined, the outcomes of the undefined
\* access where it is not.
StepOutcomes ==
    IF pc = "decide"
    THEN LET r == decide(St)
         IN {<<o, flags>> : o \in Outcomes(r.oob), flags \in FlagsAfter(r)}
    ELSE IF pc = "analyze"
    THEN LET r == analyze_conflict(St)
         IN IF r.ub = "none" THEN {"go"}
            ELSE IF r.ub = "read" THEN {"crashed", "hung"} ELSE {"hung"}
    ELSE IF pc = "restart" THEN Outcomes(backtrack(St, 0, NoNode).oob)
    ELSE IF pc = "backtrack"
    THEN Outcomes(backtrack(St, analysis[1], analysis[2]).oob)
    ELSE {"go"}

LineLits(i) == Range(file.lines[i])

\* While the clauses are inserted an empty clause is met, or a unit clause
\* against the value an earlier unit clause seeded.
ParseRefutes ==
    \E i \in 1..Len(file.lines) :
        \/ LineLits(i) = {}
        \/ /\ Cardinality(LineLits(i)) = 1
           /\ \E j \in 1..(i - 1) : LineLits(j) = {-l : l \in LineLits(i)}

\* C16: if an empty clause or a unit clause against a seeded value is met
\* while the clauses are inserted, the run ends UNSAT without a decide, BCP
\* or analyze step, and without an assignment file.
C16_ParseUnsatEndsRun ==
    ParseRefutes =>
        /\ pc \in {"read_header", "read", "end_read", "done"}
        /\ pc = "done" => stats.result = "UNSAT"
        /\ first_time /\ res = "" /\ analysis = <<0, NoNode>>
        /\ stats.num_decisions = 0 /\ stats.num_learned_clauses = 0

\* The run has ended on a unit clause against a seeded value.
C16_Witness ==
    /\ pc = "done" /\ ParseRefutes
    /\ \A i \in 1..Len(file.lines) : LineLits(i) # {}
    /\ Len(_assignment_stack) > 0

\* ------------------------------------------------ inputs out of range
\* DIMACS texts in which a clause line holds a literal N+1..2N: its variable
\* is out of the header's range, and the code's conversion leaves it the
\* internal literal of the negation of variable 1..N.
WideLits(nv) == Lits(nv) \cup ((nv + 1)..(2 * nv))
WideLines(nv) == UNION {[1..k -> WideLits(nv)] : k \in 0..MaxLen}
HasOutOfRange(f) ==
    \E i \in 1..Len(f.lines) : \E k \in 1..Len(f.lines[i]) :
        Abs(f.lines[i][k]) > f.nv
OutOfRangeInputs ==
    {f \in UNION {{[nv |-> n, lines |-> ls] :
                      ls \in UNION {[1..m -> WideLines(n)] : m \in 1..MaxClauses}} :
                  n \in 1..MaxVars} : HasOutOfRange(f)}

InitAnyInput ==
    \/ Init
    \/ InitFor(OutOfRangeInputs, {"ORDERED", "VSIDS", "MINISAT"}, {"None"})

SpecAnyInput == InitAnyInput /\ [][Next]_vars

\* The first clause line with a literal out of range.
FirstOutOfRange ==
    CHOOSE i \in 1..Len(file.lines) :
        /\ \E k \in 1..Len(file.lines[i]) : Abs(file.lines[i][k]) > file.nv
        /\ \A j \in 1..(i - 1) :
              \A k \in 1..Len(file.lines[j]) : Abs(file.lines[j][k]) <= file.nv

\* C17: on an input with a literal whose variable is outside 1..N the
\* solver does no solving: the line is never handed on as a clause, the
\* search loop is never entered and neither SAT nor UNSAT is reported.
C17_OutOfRangeFailsFast ==
    HasOutOfRange(file) =>
        /\ lineNo < FirstOutOfRange
        /\ pc \in {"read_header", "read"}
        /\ stats.result = ""

\* ------------------------------------------------------------ verifier.cpp
MaxLines == 3

\* A line of the text as check_validity reads it: its first word when that
\* is "c", "p" or "%", and its numbers otherwise (none: a blank line).
WordLine(w) == [word |-> w, toks |-> <<>>]
NumberLine(t) == [word |-> "", toks |-> t]

\* The inner loop over the literals of a clause: a literal over a variable
\* missing from the assignment is passed over.
clause_sat(clause, dict) ==
    \E k \in 1..Len(clause) :
        LET l == clause[k]
            var == Abs(l)
            is_neg == l < 0
        IN /\ var \in DOMAIN dict
           /\ (is_neg /\ ~dict[var]) \/ (~is_neg /\ dict[var])

\* One turn of the loop over the lines: "continue", or "return false".
CheckLine(line, dict) ==
    IF line.toks = <<>> \/ line.word \in {"c", "p", "%"} THEN "continue"
    ELSE LET clause == IF Last(line.toks) = 0 THEN Front(line.toks) ELSE line.toks
         IN IF clause_sat(clause, dict) THEN "continue" ELSE "return false"

\* The file is opened; one that does not open returns false.
CheckOpen ==
    /\ pc = "check_validity"
    /\ pc' = IF file = NoFile THEN "checked" ELSE "check_line"
    /\ is_correct' = FALSE
    /\ UNCHANGED <<argc, file, _decider, _restarter, ops, assgn_dict, solver, conflict_at_0,
                   lineNo, first_time, res, analysis, solverVars>>

\* getline gives the next line.
CheckNextLine ==
    /\ pc = "check_line"
    /\ lineNo < Len(file.lines)
    /\ lineNo' = lineNo + 1
    /\ pc' = IF CheckLine(file.lines[lineNo + 1], assgn_dict) = "continue"
              THEN "check_line" ELSE "checked"
    /\ is_correct' = FALSE
    /\ UNCHANGED <<argc, file, _decider, _restarter, ops, assgn_dict, solver, conflict_at_0,
                   first_time, res, analysis, solverVars>>

\* getline fails at the end of the text: return true.
CheckEnd ==
    /\ pc = "check_line"
    /\ lineNo = Len(file.lines)
    /\ pc' = "checked"
    /\ is_correct' = TRUE
    /\ UNCHANGED <<argc, file, _decider, _restarter, ops, assgn_dict, solver, conflict_at_0,
                   lineNo, first_time, res, analysis, solverVars>>

\* The texts: up to MaxLines lines, each a comment, a header, a "%", a blank
\* line, a clause ended by 0 or a single literal without its 0.
ClauseTexts ==
    LET lits == UNION {[1..k -> Lits(MaxVars)] : k \in 0..MaxLen}
    IN {<<>>} \cup {l \o <<0>> : l \in lits} \cup {l \in lits : Len(l) = 1}
VerifierLines ==
    {WordLine(w) : w \in {"c", "p", "%"}} \cup {NumberLine(t) : t \in ClauseTexts}
VerifierTexts ==
    {[nv |-> MaxVars, lines |-> ls] :
        ls \in UNION {[1..n -> VerifierLines] : n \in 0..MaxLines}}
Dicts == UNION {[D -> BOOLEAN] : D \in SUBSET (1..MaxVars)}

InitVerifier ==
    /\ argc = MinArgc
    /\ file \in VerifierTexts \cup {NoFile}
    /\ assgn_dict \in Dicts
    /\ _decider = "ORDERED"
    /\ _restarter = "None"
    /\ pc = "check_validity"
    /\ MemberDefaults
    /\ _conflict_limit = 0
    /\ _luby_gen = LubyReset

NextVerifier == CheckOpen \/ CheckNextLine \/ CheckEnd

SpecVerifier == InitVerifier /\ [][NextVerifier]_vars

\* The clauses of a DIMACS text: the lines before the first "%" line that
\* are neither comment nor header nor blank, each with its nonzero numbers.
InputEnd ==
    IF \E i \in 1..Len(file.lines) : file.lines[i].word = "%"
    THEN (CHOOSE i \in 1..Len(file.lines) :
             /\ file.lines[i].word = "%"
             /\ \A j \in 1..(i - 1) : file.lines[j].word # "%") - 1
    ELSE Len(file.lines)
DimacsClauses ==
    {i \in 1..InputEnd : file.lines[i].word = "" /\ file.lines[i].toks # <<>>}
LiteralsOf(i) == Range(file.lines[i].toks) \ {0}
MadeTrue(l) ==
    /\ Abs(l) \in DOMAIN assgn_dict
    /\ assgn_dict[Abs(l)] = (l > 0)
Checked == pc = "checked" /\ file # NoFile

\* C19: check_validity returns true if and only if every clause of the
\* input has a literal the assignment makes true, a literal over a variable
\* missing from the assignment counting as not true; a clause with no
\* literals makes it return false.
C19_VerifierAcceptsExactlyModels ==
    Checked =>
        (is_correct <=> \A i \in DimacsClauses : \E l \in LiteralsOf(i) : MadeTrue(l))

\* ------------------------------------------------------------- exit codes
\* The process has ended with exit code 0, and with another code: a return
\* of 1 from main, or the abort of a broken process.
ExitedZero == pc = "returned_0"
ExitedNonzero == pc \in {"returned_1", "crashed"}
Answered == stats.result \in {"SAT", "UNSAT"}
BadCommandLine ==
    \/ argc < MinArgc
    \/ _decider \notin Deciders
    \/ _restarter \notin Restarters
    \/ file = NoFile

\* C18: the process exits with code 0 exactly when the run ended with SAT or
\* UNSAT, and with a nonzero code when the input file cannot be opened or
\* the arguments are too few or name an unknown decider or restarter.
C18_ExitCodes ==
    /\ ExitedZero => Answered
    /\ ExitedNonzero => ~Answered
    /\ BadCommandLine => ~ExitedZero

\* ---------------------------------------------- PriorityQueue on its own
\* A queue driven by any sequence of its operations: init with a start list
\* over the keys 1..n, then get_top, increase_update, remove, and add of a
\* key of the index range that is absent.  pc names the last operation,
\* _lit_scores is the start list of the init.  init clears the queue, so a
\* second init leads to no state the first does not.
QueueKeys == DOMAIN _priority_queue.indices
Present(key) == key \in QueueKeys /\ _priority_queue.indices[key] # -1
ScoreOf(key) == _priority_queue.heap[_priority_queue.indices[key] + 1][1]
notQueue == <<argc, assgn_dict, solver, is_correct, file, _decider, _restarter, conflict_at_0, lineNo, first_time,
              res, analysis, _num_clauses, _num_vars, _level, _clauses,
              _clauses_watched_by_l, _literals_watching_c,
              _variable_to_assignment_nodes, _is_var_assigned,
              _assignment_stack, _conflict_limit, _conflicts_before_restart,
              _luby_gen, _var_scores, _phase, _incr, stats>>

InitQueue == InitFor({[nv |-> 0, lines |-> <<>>]}, {"VSIDS"}, {"None"})

QueueInit ==
    /\ pc = "read_header"
    /\ \E n \in 1..MaxKeys : \E start_list \in [0..n -> 0..MaxScore] :
          /\ start_list[0] = 0
          /\ _lit_scores' = start_list
          /\ _priority_queue' = PQinit(start_list, n)
    /\ pc' = "init"
    /\ UNCHANGED <<notQueue, ops>>

\* An operation after init, counted.
QueueOp(name) ==
    /\ pc # "read_header"
    /\ ops < MaxOps
    /\ ops' = ops + 1
    /\ pc' = name
    /\ UNCHANGED <<notQueue, _lit_scores>>

QueueGetTop ==
    /\ QueueOp("get_top")
    /\ _priority_queue' = get_top(_priority_queue).q

\* Of a key of the queue, present or not, or of the first key past its range.
QueueIncreaseUpdate ==
    /\ QueueOp("increase_update")
    /\ \E key \in QueueKeys \cup {Cardinality(QueueKeys)} :
          /\ Present(key) => ScoreOf(key) < MaxScore
          /\ _priority_queue' = increase_update(_priority_queue, key, 1)

QueueRemove ==
    /\ QueueOp("remove")
    /\ \E key \in QueueKeys \cup {Cardinality(QueueKeys)} :
          _priority_queue' = PQremove(_priority_queue, key)

QueueAdd ==
    /\ QueueOp("add")
    /\ \E key \in QueueKeys : \E value \in 0..MaxScore :
          /\ ~Present(key)
          /\ _priority_queue' = PQadd(_priority_queue, key, value)

NextQueue ==
    \/ QueueInit
    \/ QueueGetTop
    \/ QueueIncreaseUpdate
    \/ QueueRemove
    \/ QueueAdd

SpecQueue == InitQueue /\ [][NextQueue]_vars

\* C12: after any sequence of the queue's operations the position map and
\* the heap agree (a mapped key is at its position within the live prefix,
\* every live slot holds a key mapped to it) and no live node has a score
\* below a child's.
C12_QueueConsistent ==
    LET q == _priority_queue
    IN /\ \A k \in DOMAIN q.indices :
             q.indices[k] # -1 =>
                 q.indices[k] < q.size /\ q.heap[q.indices[k] + 1][2] = k
       /\ \A p \in 0..(q.size - 1) :
             /\ q.heap[p + 1][2] \in DOMAIN q.indices
             /\ q.indices[q.heap[p + 1][2]] = p
       /\ \A p \in 1..(q.size - 1) :
             q.heap[((p - 1) \div 2) + 1][1] >= q.heap[p + 1][1]

\* A remove has just left five keys in the heap, after an add put a key
\* back: the node that took the removed key's place stands above the leaves.
C12_Witness ==
    /\ pc = "remove"
    /\ ops = MaxOps
    /\ _priority_queue.size = 5
    /\ \E k \in QueueKeys : Present(k) /\ ScoreOf(k) # _lit_scores[k]

\* ---------------------------------------------- LubyGenerator on its own
\* A generator on which get_next_luby_number is called MaxCalls times after
\* reset, and reset at any time.
notLuby == <<argc, assgn_dict, solver, is_correct, file, _decider, _restarter, conflict_at_0, ops, lineNo, first_time,
             res, analysis, _num_clauses, _num_vars, _level, _clauses,
             _clauses_watched_by_l, _literals_watching_c,
             _variable_to_assignment_nodes, _is_var_assigned,
             _assignment_stack, _conflict_limit, _conflicts_before_restart,
             _lit_scores, _var_scores, _phase, _incr, _priority_queue, stats>>

InitLuby == InitFor({[nv |-> 0, lines |-> <<>>]}, {"ORDERED"}, {"None"})

LubyNext ==
    /\ Len(_luby_gen.l) < MaxCalls
    /\ _luby_gen' = get_next_luby_number(_luby_gen)
    /\ pc' = "luby"
    /\ UNCHANGED notLuby

LubyDoReset ==
    /\ pc = "luby"
    /\ _luby_gen' = LubyReset
    /\ pc' = "read_header"
    /\ UNCHANGED notLuby

NextLuby ==
    \/ LubyNext
    \/ LubyDoReset

SpecLuby == InitLuby /\ [][NextLuby]_vars

\* The i-th term of the Luby sequence: 2^(k-1) if i = 2^k - 1, and the term
\* i - 2^(k-1) + 1 for 2^(k-1) <= i < 2^k - 1.
RECURSIVE LubyTerm(_)
LubyTerm(i) ==
    LET k == CHOOSE e \in 1..(i + 1) : Pow(2, e - 1) <= i /\ i <= Pow(2, e) - 1
    IN IF i = Pow(2, k) - 1 THEN Pow(2, k - 1)
       ELSE LubyTerm(i - Pow(2, k - 1) + 1)

FirstLubyTerms == <<1, 1, 2, 1, 1, 2, 4, 1, 1, 2, 1, 1, 2, 4, 8>>

\* C14: after reset the i-th call of get_next_luby_number returns the i-th
\* term of the Luby sequence, which starts 1, 1, 2, 1, 1, 2, 4, 1, 1, 2, 1,
\* 1, 2, 4, 8.
C14_LubySequence ==
    /\ \A i \in 1..Len(_luby_gen.l) : _luby_gen.l[i] = LubyTerm(i)
    /\ \A i \in 1..Len(FirstLubyTerms) :
          i <= Len(_luby_gen.l) => _luby_gen.l[i] = FirstLubyTerms[i]

\* The call that returns 8 has been made.
C14_Witness == pc = "luby" /\ Len(_luby_gen.l) = 15 /\ Last(_luby_gen.l) = 8

\* ------------------------------------------ the restart controller on its own
MaxConflicts == 8000

InitRestart ==
    InitFor({[nv |-> 0, lines |-> <<>>]}, {"ORDERED"}, {"None", "GEOMETRIC", "LUBY"})

\* BCP finds a falsified clause: the controller counts the conflict and BCP
\* returns RESTART or CONFLICT; the conflict node of a CONFLICT is the one
\* the analysis that follows pops.
ConflictFound ==
    /\ ops < MaxConflicts
    /\ ops' = ops + 1
    /\ LET r == Conflict(St, 0)
       IN /\ Set([r.s EXCEPT !.stack = <<>>])
          /\ res' = r.res
    /\ pc' = "conflict"
    /\ UNCHANGED <<argc, file, _decider, _restarter, assgn_dict, solver, is_correct,
                   conflict_at_0, lineNo, first_time, analysis>>

NextRestart == ConflictFound

SpecRestart == InitRestart /\ [][NextRestart]_vars

\* The threshold after k restarts: 512 doubled k times, and 512 times the
\* (k+1)-th term of the Luby sequence.
Threshold(k) ==
    IF _restarter = "GEOMETRIC" THEN GeometricStart * Pow(2, k)
    ELSE _luby_base * LubyTerm(k + 1)

\* C23: with GEOMETRIC or LUBY the conflict counter grows by one on every
\* conflict, BCP returns RESTART exactly on the conflict at which the counter
\* reaches the threshold, the counter is then 0, and the successive
\* thresholds are 512, 1024, 2048, ... for GEOMETRIC and 512 L(1), 512 L(2),
\* 512 L(3), ... for LUBY; with None BCP never returns RESTART.
C23_RestartSchedule ==
    /\ _restarter # "None" => _conflict_limit = Threshold(0)
    /\ [][IF _restarter = "None" THEN res' # "RESTART"
          ELSE /\ res' = "RESTART" <=> _conflicts_before_restart + 1 = _conflict_limit
               /\ _conflicts_before_restart' =
                     IF res' = "RESTART" THEN 0 ELSE _conflicts_before_restart + 1
               /\ stats.restarts' = stats.restarts + (IF res' = "RESTART" THEN 1 ELSE 0)
               /\ _conflict_limit' = Threshold(stats.restarts')]_vars

\* The third restart has happened under each of the two policies.
C23_Witness ==
    /\ pc = "conflict"
    /\ res = "RESTART"
    /\ stats.restarts = 3
    /\ _conflict_limit = IF _restarter = "LUBY" THEN _luby_base ELSE 8 * GeometricStart


\* ------------------------------------------------------ the clause database
\* The clause line add_clause is about to be given, after its duplicate
\* removal.
LineRead == SortUnique(ToInternal(_num_vars, file.lines[lineNo + 1]))

\* The literal a node makes true.
LitOfNode(n) == IF n.value THEN n.var ELSE n.var + _num_vars

\* A stored clause: two or more literals, no literal twice, no variable in
\* both polarities.
WellFormed(c) ==
    /\ Len(c) >= 2
    /\ NoRepeats(c)
    /\ \A k \in 1..Len(c) : c[k] <= _num_vars => \A j \in 1..Len(c) : c[j] # c[k] + _num_vars

\* The watch structures are left as they were.
WatchesKept ==
    /\ _literals_watching_c' = _literals_watching_c
    /\ _clauses_watched_by_l' = _clauses_watched_by_l

\* The last node of the new trail is a level-0 node without antecedent that
\* makes the literal true.
Seeded(l) ==
    /\ _assignment_stack' # <<>>
    /\ Last(_assignment_stack').level = 0
    /\ Last(_assignment_stack').clause = -1
    /\ LitOfNode(Last(_assignment_stack')) = l

\* The trail gains at most one node, and that one seeds the literal.
SeedsOnly(l) ==
    \/ _assignment_stack' = _assignment_stack
    \/ Front(_assignment_stack') = _assignment_stack /\ Seeded(l)

\* C30: every clause of the database has two or more pairwise distinct
\* literals and no literal together with its negation; the ids are
\* 0.._num_clauses-1 in the order of insertion, each with its pair of
\* watches, and a stored clause never changes; an input clause that reduces
\* to one literal and a learned clause of one literal store nothing, touch no
\* watch and only give a level-0 assignment without antecedent.
C30_ClauseDatabase ==
    /\ [](/\ _num_clauses = Len(_clauses)
          /\ Len(_literals_watching_c) = Len(_clauses)
          /\ \A c \in 1..Len(_clauses) : WellFormed(_clauses[c]))
    /\ [][/\ Len(_clauses') \in {Len(_clauses), Len(_clauses) + 1}
          /\ SubSeq(_clauses', 1, Len(_clauses)) = _clauses
          /\ (pc = "read" /\ Len(LineRead) = 1) =>
                /\ _clauses' = _clauses
                /\ WatchesKept
                /\ SeedsOnly(LineRead[1])
          /\ (Analysing /\ ~StoredClause) =>
                /\ _clauses' = _clauses
                /\ WatchesKept
                /\ analysis'[1] = 0
                /\ analysis'[2].level = 0
                /\ analysis'[2].clause = -1
          /\ (pc = "backtrack" /\ analysis[2].clause = -1 /\ pc' = "bcp") =>
                /\ _clauses' = _clauses
                /\ WatchesKept
                /\ Seeded(LitOfNode(analysis[2]))
                /\ _level' = 0]_vars

\* A unit learned clause has been pushed at level 0 while the database holds
\* input and learned clauses, and a unit input clause was seeded at parse.
C30_Witness ==
    /\ pc = "bcp"
    /\ res = "CONFLICT"
    /\ analysis[2].clause = -1
    /\ stats.num_learned_clauses > 0
    /\ Len(_clauses) > stats.num_learned_clauses
    /\ \E k \in 1..Len(file.lines) : Len(SortUnique(file.lines[k])) = 1


\* --------------------------------------------------- tautological clauses
\* The line read_dimacs_cnf_file is about to hand to add_clause holds a
\* variable in both polarities.
TautologyLine ==
    /\ pc = "read"
    /\ \E k, j \in 1..Len(file.lines[lineNo + 1]) :
          file.lines[lineNo + 1][k] = -file.lines[lineNo + 1][j]

\* C31: add_clause on a clause that holds a variable both positively and
\* negatively returns 1 (the reading goes on to the next line, or to the end
\* of the file) and changes nothing of the solver: clause database, watch
\* pairs and lists, trail and per-variable state, scores, queue and result.
C31_TautologyIgnored ==
    [][TautologyLine =>
          /\ UNCHANGED solverVars
          /\ lineNo' = lineNo + 1
          /\ pc' = IF lineNo + 1 = Len(file.lines) THEN "end_read" ELSE "read"]_vars

\* A tautological line with a literal of another variable has been read
\* after a line that seeded the trail, and clause lines are still to come.
C31_Witness ==
    /\ pc = "read"
    /\ lineNo >= 2
    /\ _assignment_stack # <<>>
    /\ _clauses = <<>>
    /\ LET line == file.lines[lineNo]
       IN \E k, j, o \in 1..Len(line) :
             line[k] = -line[j] /\ Abs(line[o]) # Abs(line[k])


\* ------------------------------------------------------------ phase saving
\* The variable has been assigned at least once: its slot holds the node of
\* its most recent assignment (backtrack clears the flag, never the node).
EverAssigned(v) == is_valid(_variable_to_assignment_nodes[v])
LastPolarity(v) == _variable_to_assignment_nodes[v].value

\* C32: under MINISAT the saved phase of a variable that was assigned at
\* least once (at parse time by a unit clause, by a decision, by an
\* implication or by an asserting node) is the polarity of its most recent
\* assignment, the phase of a variable never assigned is false, and a
\* decision assigns the variable its saved phase.
C32_PhaseIsLastPolarity ==
    /\ []((_decider = "MINISAT" /\ pc \notin {"read_header", "crashed", "hung"}) =>
             \A v \in 1.._num_vars :
                 _phase[v] = IF EverAssigned(v) /\ LastPolarity(v) THEN 1 ELSE 0)
    /\ [][(_decider = "MINISAT" /\ Deciding) =>
             LET n == Last(_assignment_stack')
             IN n.value = (_phase[n.var] = 1)]_vars



\* ---------------------------------------------------- scores in the queue
\* The score array the queue is keyed by, and the score the heap stores with
\* a key that is present.
ScoreArray == IF _decider = "VSIDS" THEN _lit_scores ELSE _var_scores
HeapScore(k) == _priority_queue.heap[_priority_queue.indices[k] + 1][1]

\* C33: under VSIDS and MINISAT the score the heap stores with a key that is
\* in the queue is the current entry of the score array for that key, at
\* the position the index table gives for the key and at every live position
\* of the heap.
C33_HeapScoresCurrent ==
    (_decider # "ORDERED" /\ pc \notin {"crashed", "hung"}) =>
        /\ \A k \in KeysInQueue : k \in DOMAIN ScoreArray /\ HeapScore(k) = ScoreArray[k]
        /\ \A p \in 1.._priority_queue.size :
              LET e == _priority_queue.heap[p]
              IN e[2] \in DOMAIN ScoreArray /\ e[1] = ScoreArray[e[2]]

\* The score of a key after parsing: one unit for each stored input clause
\* that holds the literal (VSIDS) or a literal of the variable (MINISAT).
InitialScore(k) ==
    ScoreOne(_decider) *
        Cardinality(UNION {{<<c, i>> : i \in {j \in 1..Len(_clauses[c + 1]) :
                                k = IF _decider = "VSIDS" THEN _clauses[c + 1][j]
                                    ELSE get_var_from_literal(St, _clauses[c + 1][j])}} :
                           c \in InputIds})

\* A key is in the queue with a score above the one it had after parsing:
\* analyze_conflict bumps only literals of assigned variables, whose keys are
\* absent, so the key was bumped while absent and then reinserted.
C33_Witness ==
    /\ _decider # "ORDERED"
    /\ pc \in {"bcp", "decide"}
    /\ stats.num_learned_clauses > 0
    /\ \E k \in KeysInQueue :
          /\ k <= 2 * _num_vars
          /\ ScoreArray[k] > InitialScore(k)
          /\ HeapScore(k) = ScoreArray[k]


\* ------------------------------------------- one text, solver and verifier
\* The lines check_validity has taken as clauses: the number lines among
\* those it has read.  read_dimacs_cnf_file takes the lines of DimacsClauses:
\* its loop breaks at the first "%" line.
VerifierClauses ==
    {i \in 1..lineNo : file.lines[i].word = "" /\ file.lines[i].toks # <<>>}

\* C34: the verifier takes as clauses only lines the solver takes as
\* clauses, none after the first "%" line, and it accepts every assignment
\* that makes a literal true in each clause before that line.
C34_SameClauseSet ==
    Checked =>
        /\ VerifierClauses \subseteq DimacsClauses
        /\ (\A i \in DimacsClauses : \E l \in LiteralsOf(i) : MadeTrue(l)) => is_correct


\* --------------------------------------------------------------- the chain
\* The chain over 1..k: (not 1 or 2), ..., (not (k-1) or k), (not k).
IsChain(f) ==
    /\ f # NoFile
    /\ f.nv >= 1
    /\ Len(f.lines) = f.nv
    /\ \A i \in 1..(f.nv - 1) : f.lines[i] = <<-i, i + 1>>
    /\ f.lines[f.nv] = <<-f.nv>>

\* Every variable of the formula is false at level 0, in the order k, ..., 1
\* on the trail: k by the unit clause, the others implied.
ChainRefuted ==
    /\ Len(_assignment_stack) >= _num_vars
    /\ \A i \in 1.._num_vars :
          LET n == _assignment_stack[i]
          IN n.var = _num_vars + 1 - i /\ ~n.value /\ n.level = 0
             /\ n.clause = IF i = 1 THEN -1 ELSE n.var - 1

\* C35 as stated: on the chain formula the run ends UNSAT after one
\* decision and one learned clause of a single literal, which puts 1 = false
\* on the trail at level 0.
C35_ChainEndsUnsat ==
    (IsChain(file) /\ pc = "done") =>
        /\ stats.result = "UNSAT"
        /\ stats.num_decisions = 1
        /\ \E i \in 1..Len(_assignment_stack) :
              LET n == _assignment_stack[i]
              IN n.var = 1 /\ ~n.value /\ n.level = 0 /\ n.clause = -1


\* C35, corrected: the chain formula is satisfiable and the run never
\* reports UNSAT.  The unit clause (not k) is seeded at parse time, the first
\* BCP call implies k-1, ..., 1 false at level 0 and returns NO_CONFLICT, so
\* before any decision every variable of the formula is false at level 0, no
\* conflict was found and no clause learned; a run that ends reports SAT.
C35_ChainEndsSat ==
    IsChain(file) =>
        /\ stats.result # "UNSAT"
        /\ pc = "done" => stats.result = "SAT"
        /\ ~first_time => ChainRefuted
        /\ stats.num_decisions = 0 =>
              /\ stats.num_learned_clauses = 0
              /\ ~conflict_at_0
              /\ res \in {"", "NO_CONFLICT"}

\* A chain of three or more variables has ended SAT without a decision,
\* every variable false at level 0.
C35_Witness ==
    /\ IsChain(file)
    /\ file.nv >= 3
    /\ pc = "done"
    /\ stats.result = "SAT"
    /\ stats.num_decisions = 0
    /\ ChainRefuted
    /\ Len(_assignment_stack) = _num_vars


\* ======================================================= sat_solver_package
\* ------------------------------------------------------------ cnf_parser.h
\* CNFParser::parse: the clause lines up to their 0, a line without literals
\* dropped.  A clause is a sequence of DIMACS literals.
parse(f) ==
    [num_vars |-> f.nv,
     clauses |-> SelectSeq(f.lines, LAMBDA clause : clause # <<>>)]

\* ------------------------------------------------------------ base_solver.h
\* assignment is a map: a function from the assigned variables to BOOLEAN.
LitIsTrue(assignment, lit) ==
    Abs(lit) \in DOMAIN assignment /\ assignment[Abs(lit)] = (lit > 0)

isClauseSatisfied(assignment, clause) ==
    \E k \in 1..Len(clause) : LitIsTrue(assignment, clause[k])

isClauseConflict(assignment, clause) ==
    \A k \in 1..Len(clause) :
        Abs(clause[k]) \in DOMAIN assignment /\ ~LitIsTrue(assignment, clause[k])

getUnassignedLiterals(assignment, clause) ==
    SelectSeq(clause, LAMBDA lit : Abs(lit) \notin DOMAIN assignment)

allClausesSatisfied(formula, assignment) ==
    \A c \in 1..Len(formula.clauses) : isClauseSatisfied(assignment, formula.clauses[c])

\* assignment[var] = value
Assign(assignment, var, value) ==
    [v \in DOMAIN assignment \cup {var} |-> IF v = var THEN value ELSE assignment[v]]

\* One pass of unitPropagate over the clauses from index c on:
\* [assignment, propagated, conflict].
RECURSIVE UnitPass(_, _, _, _)
UnitPass(formula, assignment, propagated, c) ==
    IF c > Len(formula.clauses)
    THEN [assignment |-> assignment, propagated |-> propagated, conflict |-> FALSE]
    ELSE LET clause == formula.clauses[c]
             unassigned == getUnassignedLiterals(assignment, clause)
         IN IF isClauseSatisfied(assignment, clause)
            THEN UnitPass(formula, assignment, propagated, c + 1)
            ELSE IF unassigned = <<>>
            THEN [assignment |-> assignment, propagated |-> propagated, conflict |-> TRUE]
            ELSE IF Len(unassigned) = 1
            THEN UnitPass(formula, Assign(assignment, Abs(unassigned[1]), unassigned[1] > 0),
                          TRUE, c + 1)
            ELSE UnitPass(formula, assignment, propagated, c + 1)

\* unitPropagate: [assignment |-> the map after the call, ok |-> its result].
RECURSIVE unitPropagate(_, _)
unitPropagate(formula, assignment) ==
    LET r == UnitPass(formula, assignment, FALSE, 1)
    IN IF r.conflict THEN [assignment |-> r.assignment, ok |-> FALSE]
       ELSE IF r.propagated THEN unitPropagate(formula, r.assignment)
       ELSE [assignment |-> r.assignment, ok |-> TRUE]


\* ------------------------------------------------- CDCLSolver (cdcl_solver)
\* The numbers of the class.
max_iterations == 1000000
PassLimit == 1000
learned_check_limit_max == 1000
LearnedLimit == 5000
InitialRestartThreshold == 100
RestartThresholdMax == 10000
DecayPeriod == 10
CleanUpAbove == 3000
CleanUpTo == 2000

\* The loop of cdclSolve is followed for MaxIterations turns.
MaxIterations == 12

\* 1.0 of an activity in the integers of the model: one decay by 0.95 of a
\* whole number of units, and the increment divided by 0.95 once, are whole.
\* The rescaling of bumpActivity starts above 1e100, out of reach here.
ActivityOne == 380

\* The formulas: up to MaxPkgVars variables, MaxPkgClauses clause lines of up
\* to MaxLen literals.
MaxPkgVars == 2
MaxPkgClauses == 3
PkgInputs ==
    UNION {{[nv |-> n, lines |-> ls] :
               ls \in UNION {[1..m -> ClauseLines(n)] : m \in 0..MaxPkgClauses}} :
           n \in 1..MaxPkgVars}

Occurrences(formula, var) ==
    Cardinality(UNION {{<<c, k>> : k \in {j \in 1..Len(formula.clauses[c]) :
                                            Abs(formula.clauses[c][j]) = var}} :
                       c \in 1..Len(formula.clauses)})

\* The constructor: BaseSolver's members and initializeActivity.
NewCDCLSolver(f) ==
    [class |-> "CDCLSolver",
     formula |-> f,
     assignment |-> <<>>,
     activity |-> [var \in 1..f.num_vars |-> ActivityOne * Occurrences(f, var)],
     increment |-> ActivityOne,
     learned_clauses |-> <<>>,
     var_level |-> <<>>,
     trail |-> <<>>,
     decision_level |-> 0,
     conflicts |-> 0,
     restart_threshold |-> InitialRestartThreshold,
     iterations |-> 0,
     stats |-> [satisfiable |-> FALSE, timeout |-> 0, num_decisions |-> 0,
                num_backtracks |-> 0]]

\* assignment[var] = value; var_level[var] = decision_level; trail.push_back
Push(s, var, value) ==
    [s EXCEPT !.assignment = Assign(s.assignment, var, value),
              !.var_level = Assign(s.var_level, var, s.decision_level),
              !.trail = Append(s.trail, <<var, value>>)]

\* One pass of unitPropagateWithLearned over the clauses of a list from index
\* c to index last: [s, changed, conflict].
RECURSIVE CheckClauses(_, _, _, _, _)
CheckClauses(s, clauses, c, last, changed) ==
    IF c > last THEN [s |-> s, changed |-> changed, conflict |-> FALSE]
    ELSE LET clause == clauses[c]
             unassigned == getUnassignedLiterals(s.assignment, clause)
             unassigned_count == Len(unassigned)
         IN IF isClauseSatisfied(s.assignment, clause)
            THEN CheckClauses(s, clauses, c + 1, last, changed)
            ELSE IF unassigned_count = 0
            THEN [s |-> s, changed |-> changed, conflict |-> TRUE]
            ELSE IF unassigned_count = 1
            THEN LET unassigned_lit == unassigned[1]
                 IN CheckClauses(Push(s, Abs(unassigned_lit), unassigned_lit > 0),
                                 clauses, c + 1, last, TRUE)
            ELSE CheckClauses(s, clauses, c + 1, last, changed)

\* unitPropagateWithLearned from its pass number iterations + 1: [s, ok].
RECURSIVE PropagatePasses(_, _)
PropagatePasses(s, iterations) ==
    IF iterations >= PassLimit THEN [s |-> s, ok |-> TRUE]
    ELSE LET r1 == CheckClauses(s, s.formula.clauses, 1, Len(s.formula.clauses), FALSE)
         IN IF r1.conflict THEN [s |-> r1.s, ok |-> FALSE]
            ELSE LET learned_check_limit ==
                         IF Len(r1.s.learned_clauses) < learned_check_limit_max
                         THEN Len(r1.s.learned_clauses) ELSE learned_check_limit_max
                     r2 == CheckClauses(r1.s, r1.s.learned_clauses, 1,
                                        learned_check_limit, r1.changed)
                 IN IF r2.conflict THEN [s |-> r2.s, ok |-> FALSE]
                    ELSE IF r2.changed THEN PropagatePasses(r2.s, iterations + 1)
                    ELSE [s |-> r2.s, ok |-> TRUE]

unitPropagateWithLearned(s) == PropagatePasses(s, 0)

bumpActivity(s, var) == [s EXCEPT !.activity[var] = @ + s.increment]

decayActivities(s) ==
    [s EXCEPT !.activity = [var \in DOMAIN s.activity |-> (s.activity[var] * 19) \div 20],
              !.increment = (s.increment * 20) \div 19]

\* analyzeConflict: [s |-> the solver after the bumps, learned |-> the clause].
RECURSIVE BumpAll(_, _, _)
BumpAll(s, clause, k) ==
    IF k > Len(clause) THEN s ELSE BumpAll(bumpActivity(s, Abs(clause[k])), clause, k + 1)

analyzeConflict(s, conflict_clause) ==
    [s |-> BumpAll(s, conflict_clause, 1),
     learned |-> [k \in 1..Len(conflict_clause) |-> -conflict_clause[k]]]

\* findConflictClause: the first original clause with every literal false,
\* else the first learned one, else the empty clause.
findConflictClause(s) ==
    LET all == s.formula.clauses \o s.learned_clauses
        hit == {c \in 1..Len(all) : isClauseConflict(s.assignment, all[c])}
    IN IF hit = {} THEN <<>> ELSE all[CHOOSE c \in hit : \A d \in hit : c <= d]

\* backtrack(target_level)
RECURSIVE PopTrail(_, _)
PopTrail(s, target_level) ==
    IF s.trail # <<>> /\ s.var_level[Last(s.trail)[1]] > target_level
    THEN LET var == Last(s.trail)[1]
         IN PopTrail([s EXCEPT !.assignment = [v \in DOMAIN s.assignment \ {var} |-> s.assignment[v]],
                               !.var_level = [v \in DOMAIN s.var_level \ {var} |-> s.var_level[v]],
                               !.trail = Front(s.trail)],
                     target_level)
    ELSE s

cdcl_backtrack(s, target_level) ==
    [PopTrail(s, target_level) EXCEPT !.decision_level = target_level,
                                      !.stats.num_backtracks = @ + 1]

\* CDCLSolver::chooseVariable: the first unassigned variable of the highest
\* activity, -1 when every variable is assigned.
cdcl_chooseVariable(s) ==
    LET free == {var \in 1..s.formula.num_vars : var \notin DOMAIN s.assignment}
    IN IF free = {} THEN -1
       ELSE CHOOSE var \in free :
                \A w \in free : \/ s.activity[w] < s.activity[var]
                                \/ s.activity[w] = s.activity[var] /\ var <= w


\* What the package's programs leave alone: the state of cdcl_solver.cpp and
\* of the verifier.
notSolver == <<argc, file, _decider, _restarter, lineNo, first_time, res, analysis,
               conflict_at_0, ops, assgn_dict, is_correct, solverVars>>

\* return value: stats.satisfiable = cdclSolve()
Return(s, value) ==
    /\ solver' = [s EXCEPT !.stats.satisfiable = value]
    /\ pc' = "returned"

\* The start of cdclSolve: the members are reset and the formula propagated.
CdclStart ==
    /\ pc = "cdclSolve"
    /\ LET r == unitPropagateWithLearned(
                    [solver EXCEPT !.decision_level = 0, !.conflicts = 0,
                                   !.restart_threshold = InitialRestartThreshold])
       IN IF ~r.ok THEN Return(r.s, FALSE)
          ELSE solver' = r.s /\ pc' = "cdcl_loop"
    /\ UNCHANGED notSolver

\* What the loop does after a conflict: learn, backtrack, decay, restart.
AfterConflict(s0) ==
    LET s1 == [s0 EXCEPT !.conflicts = @ + 1]
        conflict_clause == findConflictClause(s1)
        a == analyzeConflict(s1, conflict_clause)
        s2 == IF a.learned # <<>> /\ Len(a.s.learned_clauses) < LearnedLimit
              THEN [a.s EXCEPT !.learned_clauses = Append(@, a.learned)]
              ELSE a.s
        lower == {s2.var_level[Abs(a.learned[k])] :
                     k \in {j \in 1..Len(a.learned) :
                               /\ Abs(a.learned[j]) \in DOMAIN s2.var_level
                               /\ s2.var_level[Abs(a.learned[j])] < s2.decision_level}}
        backtrack_level == MaxOf(lower \cup {0, s2.decision_level - 1})
        s3 == IF conflict_clause # <<>>
              THEN cdcl_backtrack(s2, backtrack_level)
              ELSE cdcl_backtrack(s1, Max(0, s1.decision_level - 1))
        s4 == IF s3.conflicts % DecayPeriod = 0 THEN decayActivities(s3) ELSE s3
    IN IF s4.conflicts >= s4.restart_threshold
       THEN LET s5 == cdcl_backtrack(s4, 0)
            IN [s5 EXCEPT !.conflicts = 0,
                          !.restart_threshold =
                              IF s4.restart_threshold * 2 < RestartThresholdMax
                              THEN s4.restart_threshold * 2 ELSE RestartThresholdMax,
                          !.learned_clauses =
                              IF Len(@) > CleanUpAbove THEN SubSeq(@, 1, CleanUpTo) ELSE @]
       ELSE s4

\* One turn of the loop of cdclSolve; isTimeout() answers either way.
CdclIteration ==
    /\ pc = "cdcl_loop"
    /\ solver.iterations < MaxIterations
    /\ LET s == [solver EXCEPT !.iterations = @ + 1]
           var == cdcl_chooseVariable(s)
       IN IF solver.iterations >= max_iterations THEN Return(s, FALSE)
          ELSE \/ Return([s EXCEPT !.stats.timeout = 1], FALSE)
               \/ IF allClausesSatisfied(s.formula, s.assignment) THEN Return(s, TRUE)
                  ELSE IF var = -1 THEN Return(s, allClausesSatisfied(s.formula, s.assignment))
                  ELSE LET d == Push([s EXCEPT !.decision_level = @ + 1,
                                               !.stats.num_decisions = @ + 1],
                                     var, TRUE)
                           r == unitPropagateWithLearned(d)
                       IN IF r.ok THEN solver' = r.s /\ pc' = "cdcl_loop"
                          ELSE IF r.s.decision_level = 0 THEN Return(r.s, FALSE)
                          ELSE solver' = AfterConflict(r.s) /\ pc' = "cdcl_loop"
    /\ UNCHANGED notSolver

InitCdcl ==
    /\ argc = 2
    /\ file \in PkgInputs
    /\ assgn_dict = <<>>
    /\ _decider = "ORDERED"
    /\ _restarter = "None"
    /\ pc = "cdclSolve"
    /\ solver = NewCDCLSolver(parse(file))
    /\ SatDefaults
    /\ _conflict_limit = 0
    /\ _luby_gen = LubyReset

NextCdcl == CdclStart \/ CdclIteration

SpecCdcl == InitCdcl /\ [][NextCdcl]_vars

\* The assignments of the variables 1..num_vars that satisfy the formula the
\* solver was given, and the formula has one.
ModelsOf(formula) ==
    {a \in [1..formula.num_vars -> BOOLEAN] :
        \A c \in 1..Len(formula.clauses) : isClauseSatisfied(a, formula.clauses[c])}

\* C36: every clause in learned_clauses is a consequence of the formula, and
\* when cdclSolve has returned false with the timeout flag clear the formula
\* is unsatisfiable.
C36_CdclUnsatIsSound ==
    /\ \A c \in 1..Len(solver.learned_clauses) :
          \A a \in ModelsOf(solver.formula) : isClauseSatisfied(a, solver.learned_clauses[c])
    /\ (pc = "returned" /\ ~solver.stats.satisfiable /\ solver.stats.timeout = 0) =>
          ModelsOf(solver.formula) = {}


\* ------------------------------------------- BackjumpingSolver (backjumping)
\* The formulas: MaxBjVars variables at most, up to MaxBjClauses clause lines
\* of two literals over the last BjWindow variables, the variable of the first
\* below the variable of the second; the variables before the window occur in
\* no clause.
MaxBjVars == 5
MaxBjClauses == 3
BjWindow == 3

BjClauseLines(n) ==
    LET window == {v \in 1..n : v > n - BjWindow}
        lits == window \cup {-v : v \in window}
    IN {cl \in lits \X lits : Abs(cl[1]) < Abs(cl[2])}

BjInputs ==
    UNION {{[nv |-> n, lines |-> ls] :
               ls \in UNION {[1..m -> BjClauseLines(n)] : m \in 0..MaxBjClauses}} :
           n \in 1..MaxBjVars}

\* The constructor.  stack holds the calls of dpll_backjump that wait for the
\* call they made: level, var, saved_assignment and the branch being tried.
NewBackjumpingSolver(f) ==
    [class |-> "BackjumpingSolver",
     formula |-> f,
     assignment |-> <<>>,
     decision_level |-> <<>>,
     current_level |-> 0,
     current_depth |-> 0,
     stack |-> <<>>,
     ret |-> FALSE,
     stats |-> [satisfiable |-> FALSE, timeout |-> 0, num_decisions |-> 0,
                num_backtracks |-> 0, max_recursion_depth |-> 0]]

\* int analyzeConflict(conflict_clause): the jump level.
bj_analyzeConflict(s, conflict_clause) ==
    MaxOf({0} \cup
          {p \in DOMAIN s.decision_level :
              /\ p < s.current_level
              /\ \E k \in 1..Len(conflict_clause) :
                    /\ Abs(conflict_clause[k]) \in DOMAIN s.assignment
                    /\ Abs(conflict_clause[k]) \in s.decision_level[p]})

\* vector<int> findConflictClause(): the first falsified clause, or none.
bj_findConflictClause(s) ==
    LET falsified == {c \in 1..Len(s.formula.clauses) :
                         isClauseConflict(s.assignment, s.formula.clauses[c])}
    IN IF falsified = {} THEN <<>> ELSE s.formula.clauses[CHOOSE c \in falsified : \A d \in falsified : c <= d]

\* int chooseVariable(): the first variable without a value, or -1.
bj_chooseVariable(s) ==
    LET free == (1..s.formula.num_vars) \ DOMAIN s.assignment
    IN IF free = {} THEN -1 ELSE CHOOSE var \in free : \A w \in free : var <= w

\* return value, to the call that waits or to solve()
BjReturn(s, value) ==
    /\ solver' = [s EXCEPT !.ret = value]
    /\ pc' = "bj_return"

\* dpll_backjump(level) from its entry to its first call or its return;
\* isTimeout() answers either way until it has answered true.
BjCall ==
    /\ pc = "dpll_backjump"
    /\ LET level == Len(solver.stack)
           s0 == [solver EXCEPT !.current_level = level, !.current_depth = level,
                                !.stats.max_recursion_depth = Max(@, level)]
           u == unitPropagate(s0.formula, s0.assignment)
           s1 == [s0 EXCEPT !.assignment = u.assignment]
           var == bj_chooseVariable(s1)
       IN \/ BjReturn([s0 EXCEPT !.stats.timeout = 1], FALSE)
          \/ /\ solver.stats.timeout = 0
             /\ IF ~u.ok THEN BjReturn([s1 EXCEPT !.stats.num_backtracks = @ + 1], FALSE)
                ELSE IF allClausesSatisfied(s1.formula, s1.assignment) THEN BjReturn(s1, TRUE)
                ELSE IF var = -1
                THEN BjReturn([s1 EXCEPT !.stats.num_backtracks = @ + 1], FALSE)
                ELSE /\ solver' =
                           [s1 EXCEPT !.stats.num_decisions = @ + 1,
                                      !.decision_level =
                                          Assign(@, level,
                                                 (IF level \in DOMAIN @ THEN @[level] ELSE {})
                                                     \cup {var}),
                                      !.stack = Append(@, [level |-> level, var |-> var,
                                                           saved_assignment |-> s1.assignment,
                                                           branch |-> TRUE]),
                                      !.assignment = Assign(@, var, TRUE)]
                     /\ pc' = "dpll_backjump"
    /\ UNCHANGED notSolver

\* dpll_backjump(level) from the return of the call it made.
BjResume ==
    /\ pc = "bj_return"
    /\ solver.stack # <<>>
    /\ LET f == Last(solver.stack)
           s == [solver EXCEPT !.stack = Front(@)]
           conflict == bj_findConflictClause(solver)
           giveUp == [s EXCEPT !.assignment = f.saved_assignment,
                               !.stats.num_backtracks = @ + 1]
       IN IF solver.ret THEN BjReturn(s, TRUE)
          ELSE IF f.branch
          THEN IF conflict # <<>> /\ bj_analyzeConflict(solver, conflict) < f.level - 1
               THEN BjReturn(giveUp, FALSE)
               ELSE /\ solver' = [solver EXCEPT
                                     !.assignment = Assign(f.saved_assignment, f.var, FALSE),
                                     !.stack[Len(solver.stack)].branch = FALSE]
                    /\ pc' = "dpll_backjump"
          ELSE BjReturn([giveUp EXCEPT !.decision_level[f.level] = @ \ {f.var}], FALSE)
    /\ UNCHANGED notSolver

\* solve(): stats.satisfiable = dpll_backjump(0)
BjSolved ==
    /\ pc = "bj_return"
    /\ solver.stack = <<>>
    /\ solver' = [solver EXCEPT !.stats.satisfiable = solver.ret]
    /\ pc' = "returned"
    /\ UNCHANGED notSolver

InitBackjump ==
    /\ argc = 2
    /\ file \in BjInputs
    /\ assgn_dict = <<>>
    /\ _decider = "ORDERED"
    /\ _restarter = "None"
    /\ pc = "dpll_backjump"
    /\ solver = NewBackjumpingSolver(parse(file))
    /\ SatDefaults
    /\ _conflict_limit = 0
    /\ _luby_gen = LubyReset

NextBackjump == BjCall \/ BjResume \/ BjSolved

SpecBackjump == InitBackjump /\ [][NextBackjump]_vars

\* C37: when dpll_backjump(0) has returned false with the timeout flag clear,
\* no assignment satisfies the formula.
C37_BackjumpUnsatIsSound ==
    (pc = "returned" /\ solver.class = "BackjumpingSolver"
        /\ ~solver.stats.satisfiable /\ solver.stats.timeout = 0) =>
        ModelsOf(solver.formula) = {}

====
